---- MODULE Spec2Model ----
(***************************************************************************)
(* A model of the identity-resolution pipeline of sql-identity-oss:        *)
(*   - ExtractionStage.extract_identifiers and GraphStage.build_edges      *)
(*     (specification SpecEdges),                                          *)
(*   - GraphStage.label_propagation (specification SpecLP),                *)
(*   - IDRRunner.run with PreflightStage.run, _record_run_start and        *)
(*     _complete_run, for two runners sharing one store (specification     *)
(*     Spec).                                                              *)
(* Entity keys are the strings "{table_id}:{pk}"; the model writes an      *)
(* entity key as its rank 1..MaxEntities in the store's string order, so   *)
(* that SQL MIN over keys is the least number.                             *)
(***************************************************************************)
EXTENDS Integers, FiniteSets, Sequences, TLC

\* ---------------------------------------------------------------- bounds
MaxEntities == 3
MaxIters == 3
MaxClock == 2
MaxHostile == 1

\* ------------------------------------------------------ program constants
\* preflight.py: INTERVAL '4 hours'
StaleHours == 4
\* config.py: rule.get("max_group_size", 10000)
DefaultMaxGroupSize == 10000

VARIABLES
    \* idr_meta / source data read by the extraction stage
    source_rows,                \* entity key -> identifier type -> raw value
    rule,                       \* identifier type -> [canonicalize, max_group_size]
    identifier_exclusion,       \* rows of idr_meta.identifier_exclusion
    \* idr_work / idr_out tables of the extraction and graph stages
    entities_delta,             \* entity keys of idr_work.entities_delta
    identifiers_all,            \* rows of idr_work.identifiers_all
    edges_new,                  \* rows of idr_work.edges_new
    skipped_identifier_groups,  \* rows of idr_out.skipped_identifier_groups
    stage,                      \* position in the extraction/edge pipeline
    \* edge evidence
    edge_evidence_exists,       \* adapter.table_exists("idr_out.edge_evidence")
    ctx_generate_evidence,      \* StageContext.generate_evidence
    graph_generate_evidence,    \* GraphStage._generate_evidence
    edge_evidence,              \* rows of idr_out.edge_evidence
    \* label propagation
    max_iters,                  \* RunConfig.max_iters
    lp_labels,                  \* idr_work.lp_labels: entity key -> label
    lp_labels_new,              \* idr_work.lp_labels_new, while it is built
    lp_edges,                   \* idr_work.lp_edges: <<src, dst>>
    iterations,                 \* local variable iterations
    changes,                    \* local variable changes (-1: not yet computed)
    lp_return,                  \* returned (iterations, clusters), <<>> before
    lp_pc,                      \* position in label_propagation
    \* runner
    run_history,                \* run id -> row of idr_out.run_history
    stage_metrics,              \* rows of idr_out.stage_metrics
    now,                        \* the store's CURRENT_TIMESTAMP, in hours
    pc,                         \* runner -> position in IDRRunner.run
    run_stage_metrics,          \* runner -> self._stage_metrics
    pending,                    \* runner -> (status, error) handed to _complete_run
    result,                     \* runner -> what run() returned or raised
    mutated,                    \* runner -> tables whose rows this run changed
    check_overlap,              \* history: a RUNNING check passed inside another runner's check-to-insert window
    config,                     \* runner -> RunConfig (strict, dry_run)
    \* metadata on its way into generated SQL
    run_mode,                   \* RunConfig.run_mode
    meta,                       \* idr_meta field -> "absent" | "clean" | "hostile"
    validated,                  \* fields that have passed a validator in this run
    interpolated,               \* (stage, field, ...) written into an executed statement
    meta_pc,                    \* the stage about to generate its SQL
    \* fuzzy matching and output generation of the current run
    run_id,                     \* self.run_id of the run at work
    dialect,                    \* adapter.dialect
    out_pc,                     \* position of that run after edge building
    warnings,                   \* ctx.warnings, as a set
    entity_attributes,          \* idr_work.entity_attributes: entity key -> attribute -> value
    fuzzy_rule,                 \* active rows of idr_meta.fuzzy_rule
    fuzzy_edges,                \* rows of idr_work.fuzzy_edges
    fuzzy_results,              \* rows of idr_work.fuzzy_results
    membership,                 \* rows of idr_out.identity_resolved_membership_current
    clusters,                   \* rows of idr_out.identity_clusters_current
    edges_current,              \* rows of idr_out.identity_edges_current
    cluster_confidence,         \* rows of idr_work.cluster_confidence
    dry_run_results,            \* rows of idr_out.dry_run_results
    dry_run_summary,            \* rows of idr_out.dry_run_summary
    before                      \* the three output tables as the run at work found them

evidenceVars == <<edge_evidence_exists, ctx_generate_evidence, graph_generate_evidence,
                  edge_evidence>>
edgeVars == <<source_rows, rule, identifier_exclusion, entities_delta,
              identifiers_all, edges_new, skipped_identifier_groups, stage, evidenceVars>>
lpVars == <<max_iters, lp_labels, lp_labels_new, lp_edges, iterations, changes,
            lp_return, lp_pc>>
runVars == <<run_history, stage_metrics, now, pc, run_stage_metrics, pending,
             result, mutated, check_overlap, config>>
metaVars == <<run_mode, meta, validated, interpolated, meta_pc>>
fuzzyVars == <<entity_attributes, fuzzy_rule, fuzzy_edges, fuzzy_results>>
tableVars == <<membership, clusters, edges_current, cluster_confidence,
               dry_run_results, dry_run_summary, before>>
outVars == <<run_id, out_pc, warnings, dialect, fuzzyVars, tableVars>>
vars == <<edgeVars, lpVars, runVars, metaVars, outVars>>

\* ------------------------------------------------------------- helpers
NULL == "NULL"
Min(S) == CHOOSE x \in S : \A y \in S : x <= y
Max(S) == CHOOSE x \in S : \A y \in S : x >= y
EmptyFn == [x \in {} |-> 0]

EntityKeys == 1..MaxEntities
IdTypes == {"EMAIL", "PHONE"}
\* raw identifier values found in the source columns
RawValues == [EMAIL |-> {NULL, "a", "A"}, PHONE |-> {NULL, "p"}]

\* =====================================================================
\* ExtractionStage.extract_identifiers
\* =====================================================================

\* SQL LOWER / UPPER on the model's values (NULL stays NULL)
sql_lower(v) == CASE v = "A" -> "a" [] v = "P" -> "p" [] OTHER -> v
sql_upper(v) == CASE v = "a" -> "A" [] v = "p" -> "P" [] OTHER -> v

\* value_expr after "Apply canonicalization"
canonicalize_value(mode, v) ==
    CASE mode = "LOWERCASE" -> sql_lower(v)
      [] mode = "UPPERCASE" -> sql_upper(v)
      [] OTHER -> v

\* SQL LIKE for the patterns of the model: "%" alone matches every string,
\* a pattern without wildcard matches itself only.
sql_like(v, pattern) == pattern = "%" \/ v = pattern

\* faulty variant: the EXACT branch of the exclusion predicate is lost
exclusion_matches_like_only(row, ex) ==
    /\ row.identifier_type = ex.identifier_type
    /\ ex.match_type = "LIKE"
    /\ sql_like(row.identifier_value_norm, ex.identifier_value_pattern)

\* the WHERE EXISTS predicate of the DELETE, for one exclusion row
exclusion_matches(row, ex) ==
    /\ row.identifier_type = ex.identifier_type
    /\ \/ /\ ex.match_type = "EXACT"
          /\ row.identifier_value_norm = ex.identifier_value_pattern
       \/ /\ ex.match_type = "LIKE"
          /\ sql_like(row.identifier_value_norm, ex.identifier_value_pattern)

\* the UNION ALL of the per-mapping SELECTs (WHERE value_expr IS NOT NULL)
extracted_rows ==
    { [entity_key |-> e,
       identifier_type |-> t,
       identifier_value_norm |-> canonicalize_value(rule[t].canonicalize, source_rows[e][t]),
       max_group_size |-> rule[t].max_group_size] :
        <<e, t>> \in { p \in entities_delta \X IdTypes :
            canonicalize_value(rule[p[2]].canonicalize, source_rows[p[1]][p[2]]) # NULL } }

extract_identifiers ==
    /\ stage = "extract_identifiers"
    /\ identifiers_all' =
         { row \in extracted_rows :
             ~ \E ex \in identifier_exclusion : exclusion_matches(row, ex) }
    /\ stage' = "build_edges"
    /\ UNCHANGED <<source_rows, rule, identifier_exclusion, entities_delta,
                   edges_new, skipped_identifier_groups, evidenceVars>>
    /\ UNCHANGED <<lpVars, runVars, metaVars, outVars>>

\* =====================================================================
\* GraphStage.build_edges
\* =====================================================================

\* rows of one (identifier_type, identifier_value_norm) group
group_rows(ids, t, v) ==
    { i \in ids : i.identifier_type = t /\ i.identifier_value_norm = v }

group_keys(ids) ==
    { <<i.identifier_type, i.identifier_value_norm>> : i \in ids }

\* faulty variant: the anchor is taken with MAX instead of MIN
anchor_key_max(rows) == Max({ i.entity_key : i \in rows })

\* MIN(entity_key) as anchor_key
anchor_key(rows) == Min({ i.entity_key : i \in rows })

\* MAX(max_group_size) as max_allowed
max_allowed(rows) == Max({ i.max_group_size : i \in rows })

\* the CTE identifier_groups: GROUP BY ... HAVING COUNT(*) > 1
identifier_groups(ids) ==
    { g \in group_keys(ids) : Cardinality(group_rows(ids, g[1], g[2])) > 1 }

\* the CTE valid_groups: WHERE group_size <= max_allowed
valid_groups(ids) ==
    { g \in identifier_groups(ids) :
        Cardinality(group_rows(ids, g[1], g[2])) <= max_allowed(group_rows(ids, g[1], g[2])) }

\* the final SELECT of CREATE OR REPLACE TABLE idr_work.edges_new
edges_select(ids) ==
    { [left_entity_key |-> i.entity_key,
       right_entity_key |-> anchor_key(group_rows(ids, i.identifier_type, i.identifier_value_norm)),
       identifier_type |-> i.identifier_type,
       identifier_value_norm |-> i.identifier_value_norm] :
        i \in { j \in ids :
                  /\ <<j.identifier_type, j.identifier_value_norm>> \in valid_groups(ids)
                  /\ j.entity_key #
                       anchor_key(group_rows(ids, j.identifier_type, j.identifier_value_norm)) } }

\* columns of idr_out.skipped_identifier_groups as SchemaManager creates it
skipped_table_columns ==
    {"run_id", "identifier_type", "identifier_value_norm", "group_size", "skipped_at"}

\* the column list of the INSERT INTO idr_out.skipped_identifier_groups
skipped_insert_columns ==
    {"run_id", "identifier_type", "identifier_value_norm", "group_size",
     "max_allowed", "sample_entity_keys", "reason", "skipped_at"}

\* the SELECT feeding the INSERT: HAVING COUNT(*) > MAX(max_group_size)
skipped_select(ids) ==
    { [identifier_type |-> g[1],
       identifier_value_norm |-> g[2],
       group_size |-> Cardinality(group_rows(ids, g[1], g[2])),
       max_allowed |-> max_allowed(group_rows(ids, g[1], g[2])),
       reason |-> "EXCEEDED_MAX_GROUP_SIZE"] :
        g \in { h \in group_keys(ids) :
                  Cardinality(group_rows(ids, h[1], h[2])) > max_allowed(group_rows(ids, h[1], h[2])) } }

\* The store rejects an INSERT naming a column the table does not have; the
\* try/except around the INSERT swallows the error ("pass").
skipped_insert(table, ids) ==
    IF skipped_insert_columns \subseteq skipped_table_columns
    THEN table \cup skipped_select(ids)
    ELSE table

\* the SELECT feeding INSERT INTO idr_out.edge_evidence
evidence_select(edges, rid) ==
    { [run_id |-> rid,
       entity_key_a |-> e.left_entity_key,
       entity_key_b |-> e.right_entity_key,
       rule_id |-> <<"exact_", e.identifier_type>>,
       identifier_type |-> e.identifier_type,
       match_value |-> e.identifier_value_norm] : e \in edges }

\* if self._generate_evidence and count and count > 0: INSERT INTO idr_out.edge_evidence
evidence_insert(table, flag, edges, rid) ==
    IF flag /\ Cardinality(edges) > 0 THEN table \cup evidence_select(edges, rid) ELSE table

build_edges ==
    /\ stage = "build_edges"
    /\ edges_new' = edges_select(identifiers_all)
    /\ skipped_identifier_groups' = skipped_insert(skipped_identifier_groups, identifiers_all)
    /\ edge_evidence' = evidence_insert(edge_evidence, graph_generate_evidence, edges_new', run_id)
    /\ stage' = "edges_built"
    /\ UNCHANGED <<source_rows, rule, identifier_exclusion, entities_delta, identifiers_all>>
    /\ UNCHANGED <<edge_evidence_exists, ctx_generate_evidence, graph_generate_evidence>>
    /\ UNCHANGED <<lpVars, runVars, metaVars, outVars>>

\* ---------------------------------------------------------------------
\* Specification SpecEdges: identifier extraction, then edge building, over
\* every source content, EMAIL rule and exclusion table within the bounds.
\* ---------------------------------------------------------------------
RuleConfigs ==
    { [EMAIL |-> [canonicalize |-> c, max_group_size |-> m],
       PHONE |-> [canonicalize |-> "NONE", max_group_size |-> DefaultMaxGroupSize]] :
        <<c, m>> \in {"LOWERCASE", "UPPERCASE", "NONE"} \X (1..MaxEntities) }

ExclusionRows ==
    { [identifier_type |-> "EMAIL", identifier_value_pattern |-> "a", match_type |-> "EXACT"],
      [identifier_type |-> "PHONE", identifier_value_pattern |-> "%", match_type |-> "LIKE"] }

NoRow == [status |-> "NONE", started_at |-> 0, error_message |-> NULL]

LpIdle ==
    /\ max_iters = 1
    /\ lp_labels = EmptyFn
    /\ lp_labels_new = EmptyFn
    /\ lp_edges = {}
    /\ iterations = 0
    /\ changes = -1
    /\ lp_return = <<>>
    /\ lp_pc = "off"

RunTablesIdle ==
    /\ run_history = [id \in {} |-> NoRow]
    /\ stage_metrics = {}
    /\ now = 0
    /\ pc = [r \in {} |-> "off"]
    /\ run_stage_metrics = [r \in {} |-> <<>>]
    /\ pending = [r \in {} |-> <<>>]
    /\ result = [r \in {} |-> <<>>]
    /\ mutated = [r \in {} |-> {}]
    /\ check_overlap = FALSE

RunIdle ==
    /\ RunTablesIdle
    /\ config = [r \in {} |-> <<>>]

MetaIdle ==
    /\ run_mode = "FULL"
    /\ meta = EmptyFn
    /\ validated = {}
    /\ interpolated = {}
    /\ meta_pc = "off"

\* no edge_evidence table: load_evidence_flag returns False
EvidenceOff ==
    /\ edge_evidence_exists = FALSE
    /\ ctx_generate_evidence = FALSE
    /\ graph_generate_evidence = FALSE
    /\ edge_evidence = {}

OutIdle ==
    /\ run_id = "run_1"
    /\ dialect = "duckdb"
    /\ out_pc = "off"
    /\ warnings = {}
    /\ entity_attributes = EmptyFn
    /\ fuzzy_rule = {}
    /\ fuzzy_edges = {}
    /\ fuzzy_results = {}
    /\ membership = {}
    /\ clusters = {}
    /\ edges_current = {}
    /\ cluster_confidence = {}
    /\ dry_run_results = {}
    /\ dry_run_summary = {}
    /\ before = [membership |-> {}, clusters |-> {}, edges |-> {}]

InitEdges ==
    /\ source_rows \in [EntityKeys -> [EMAIL : RawValues.EMAIL, PHONE : RawValues.PHONE]]
    /\ rule \in RuleConfigs
    /\ identifier_exclusion \in SUBSET ExclusionRows
    /\ entities_delta = EntityKeys
    /\ identifiers_all = {}
    /\ edges_new = {}
    /\ skipped_identifier_groups = {}
    /\ EvidenceOff
    /\ stage = "extract_identifiers"
    /\ LpIdle
    /\ RunIdle
    /\ MetaIdle
    /\ OutIdle

NextEdges ==
    \/ extract_identifiers
    \/ build_edges

SpecEdges == InitEdges /\ [][NextEdges]_vars

\* ---------------------------------------------------------------------
\* Claims on edge building
\* ---------------------------------------------------------------------
GroupMembers(t, v) == { i.entity_key : i \in group_rows(identifiers_all, t, v) }
EdgesOfGroup(t, v) ==
    { e \in edges_new : e.identifier_type = t /\ e.identifier_value_norm = v }

\* C4: a group of size k > max_group_size of its rule produces no edge and is
\* logged in idr_out.skipped_identifier_groups with group_size = k and reason
\* EXCEEDED_MAX_GROUP_SIZE.
C4_OversizedGroupSkippedAndLogged ==
    stage = "edges_built" =>
        \A g \in group_keys(identifiers_all) :
            Cardinality(GroupMembers(g[1], g[2])) > rule[g[1]].max_group_size =>
                /\ EdgesOfGroup(g[1], g[2]) = {}
                /\ \E s \in skipped_identifier_groups :
                      /\ s.identifier_type = g[1]
                      /\ s.identifier_value_norm = g[2]
                      /\ s.group_size = Cardinality(GroupMembers(g[1], g[2]))
                      /\ s.reason = "EXCEEDED_MAX_GROUP_SIZE"

\* The part of C4 the code does keep: an oversized group produces no edge.
C4_OversizedGroupHasNoEdge ==
    stage = "edges_built" =>
        \A g \in group_keys(identifiers_all) :
            Cardinality(GroupMembers(g[1], g[2])) > rule[g[1]].max_group_size =>
                EdgesOfGroup(g[1], g[2]) = {}

\* C5: a group of size k, 2 <= k <= max_group_size, gets exactly k-1 edges,
\* one from each non-anchor member to the least entity key of the group.
C5_StarOfKMinusOneEdges ==
    stage = "edges_built" =>
        \A g \in group_keys(identifiers_all) :
            LET members == GroupMembers(g[1], g[2])
                k == Cardinality(members)
            IN  (2 <= k /\ k <= rule[g[1]].max_group_size) =>
                  /\ Cardinality(EdgesOfGroup(g[1], g[2])) = k - 1
                  /\ { <<e.left_entity_key, e.right_entity_key>> : e \in EdgesOfGroup(g[1], g[2]) }
                       = { <<m, Min(members)>> : m \in members \ {Min(members)} }

C5_Witness ==
    /\ stage = "edges_built"
    /\ \E g \in group_keys(identifiers_all) :
          /\ Cardinality(GroupMembers(g[1], g[2])) = MaxEntities
          /\ rule[g[1]].max_group_size = MaxEntities
          /\ Cardinality(EdgesOfGroup(g[1], g[2])) = MaxEntities - 1

\* C6: no identifier row, and so no edge, carries a value that an EXACT row of
\* the exclusion table lists for its identifier type.
ExactExcluded(t, v) ==
    \E ex \in identifier_exclusion :
        /\ ex.match_type = "EXACT"
        /\ ex.identifier_type = t
        /\ ex.identifier_value_pattern = v

lp_labels_init_from_membership(entities) ==
    [e \in entities |->
        IF \E m \in membership : m.entity_key = e
        THEN Min({ m.resolved_id : m \in { x \in membership : x.entity_key = e } })
        ELSE e]

\* CREATE TABLE lp_labels AS SELECT DISTINCT entity_key, entity_key AS label
lp_labels_init(entities) == [e \in entities |-> e]

\* faulty variant: only one direction of every edge is kept
lp_edges_one_direction(edges) ==
    { <<e.left_entity_key, e.right_entity_key>> : e \in edges }

\* CREATE TABLE lp_edges: both directions of every row of edges_new
lp_edges_select(edges) ==
    { <<e.left_entity_key, e.right_entity_key>> : e \in edges }
      \cup { <<e.right_entity_key, e.left_entity_key>> : e \in edges }

\* faulty variant: rows already written in this iteration are read back
\* (in-place, sequential relaxation)
propagation_source_in_place(labels, labels_new) ==
    [e \in DOMAIN labels |-> IF e \in DOMAIN labels_new THEN labels_new[e] ELSE labels[e]]

\* the table both branches of candidate_labels read: idr_work.lp_labels, the
\* labels of the previous iteration
propagation_source(labels, labels_new) == labels

\* the CTE candidate_labels, for one entity_key
candidate_labels(e, labels, edges) ==
    (IF e \in DOMAIN labels THEN {labels[e]} ELSE {})
      \cup { labels[p[2]] : p \in { q \in edges : q[1] = e /\ q[2] \in DOMAIN labels } }

\* the entity keys of candidate_labels (the groups of GROUP BY entity_key)
candidate_keys(labels, edges) ==
    DOMAIN labels \cup { p[1] : p \in { q \in edges : q[2] \in DOMAIN labels } }

\* faulty variant: MAX instead of MIN
new_label_max(e, labels, edges) == Max(candidate_labels(e, labels, edges))

\* SELECT entity_key, MIN(candidate_label) AS label ... GROUP BY entity_key
new_label(e, labels, edges) == Min(candidate_labels(e, labels, edges))

\* SELECT COUNT(*) ... JOIN ... WHERE prev.label != curr.label
count_changes(prev, curr) ==
    Cardinality({ e \in DOMAIN prev \cap DOMAIN curr : prev[e] # curr[e] })

\* SELECT COUNT(DISTINCT label) FROM idr_work.lp_labels
count_clusters(labels) == Cardinality({ labels[e] : e \in DOMAIN labels })

\* the two CREATE TABLE statements before the loop
lp_initialize ==
    /\ lp_pc = "init"
    /\ lp_labels' = lp_labels_init(entities_delta)
    /\ lp_edges' = lp_edges_select(edges_new)
    /\ lp_labels_new' = EmptyFn
    /\ iterations' = 0
    /\ lp_pc' = "iterate"
    /\ UNCHANGED <<max_iters, changes, lp_return>>
    /\ UNCHANGED <<edgeVars, runVars, metaVars, outVars>>

\* One group of the "Propagate minimum label" statement. The store evaluates
\* the groups of the statement in an order of its own choosing.
lp_propagate_row(e) ==
    /\ lp_pc = "iterate"
    /\ e \in candidate_keys(lp_labels, lp_edges) \ DOMAIN lp_labels_new
    /\ lp_labels_new' =
         [x \in DOMAIN lp_labels_new \cup {e} |->
             IF x = e
             THEN new_label(e, propagation_source(lp_labels, lp_labels_new), lp_edges)
             ELSE lp_labels_new[x]]
    /\ UNCHANGED <<max_iters, lp_labels, lp_edges, iterations, changes, lp_return, lp_pc>>
    /\ UNCHANGED <<edgeVars, runVars, metaVars, outVars>>

\* faulty variant: the loop never stops early
lp_converged_never(ch) == FALSE

\* if changes == 0: break
lp_converged(ch) == ch = 0

\* The rest of one loop iteration once lp_labels_new is complete: the
\* convergence count, the table swap, the loop exit and the return value.
lp_swap ==
    /\ lp_pc = "iterate"
    /\ DOMAIN lp_labels_new = candidate_keys(lp_labels, lp_edges)
    /\ iterations' = iterations + 1
    /\ changes' = count_changes(lp_labels, lp_labels_new)
    /\ lp_labels' = lp_labels_new
    /\ lp_labels_new' = EmptyFn
    /\ IF lp_converged(changes') \/ iterations' = max_iters
       THEN /\ lp_pc' = "done"
            /\ lp_return' = <<iterations', count_clusters(lp_labels')>>
       ELSE /\ lp_pc' = "iterate"
            /\ UNCHANGED lp_return
    /\ UNCHANGED <<max_iters, lp_edges>>
    /\ UNCHANGED <<edgeVars, runVars, metaVars, outVars>>

\* ---------------------------------------------------------------------
\* Specification SpecLP: label propagation over every edge table that
\* build_edges can leave for MaxEntities entities. build_edges points every
\* edge from a member to the least key of its group, so left > right; any set
\* of such pairs arises when each pair shares an identifier type of its own.
\* ---------------------------------------------------------------------
PairType(l, r) == <<"ID", l, r>>

EdgeRow(l, r) ==
    [left_entity_key |-> l, right_entity_key |-> r,
     identifier_type |-> PairType(l, r), identifier_value_norm |-> "a"]

DownPairs == { p \in EntityKeys \X EntityKeys : p[1] > p[2] }

InitLP ==
    /\ source_rows = EmptyFn
    /\ rule = EmptyFn
    /\ identifier_exclusion = {}
    /\ entities_delta = EntityKeys
    /\ identifiers_all = {}
    /\ edges_new \in { { EdgeRow(p[1], p[2]) : p \in S } : S \in SUBSET DownPairs }
    /\ skipped_identifier_groups = {}
    /\ EvidenceOff
    /\ stage = "edges_built"
    /\ max_iters \in 1..MaxIters
    /\ lp_labels = EmptyFn
    /\ lp_labels_new = EmptyFn
    /\ lp_edges = {}
    /\ iterations = 0
    /\ changes = -1
    /\ lp_return = <<>>
    /\ lp_pc = "init"
    /\ RunIdle
    /\ MetaIdle
    /\ OutIdle

NextLP ==
    \/ lp_initialize
    \/ \E e \in EntityKeys : lp_propagate_row(e)
    \/ lp_swap

SpecLP == InitLP /\ [][NextLP]_vars

\* ---------------------------------------------------------------------
\* Claims on label propagation
\* ---------------------------------------------------------------------
\* the undirected graph of edges_new
Adjacent(a, b) ==
    \E e \in edges_new :
        \/ (e.left_entity_key = a /\ e.right_entity_key = b)
        \/ (e.left_entity_key = b /\ e.right_entity_key = a)

\* the entities within n edges of e
RECURSIVE Within(_, _)
Within(e, n) ==
    IF n = 0 THEN {e}
    ELSE LET W == Within(e, n - 1)
         IN  W \cup { b \in entities_delta : \E a \in W : Adjacent(a, b) }

Component(e) == Within(e, Cardinality(entities_delta))

Carriers(label) == { x \in DOMAIN lp_labels : lp_labels[x] = label }

\* C1: when the loop stopped on an iteration without change, every label is
\* the least entity key of the entity's connected component, and two entities
\* have the same label exactly when they are connected.
C1_ConvergedLabelIsComponentMin ==
    (lp_pc = "done" /\ changes = 0) =>
        /\ DOMAIN lp_labels = entities_delta
        /\ \A e \in entities_delta : lp_labels[e] = Min(Component(e))
        /\ \A a, b \in entities_delta :
              (lp_labels[a] = lp_labels[b]) <=> (b \in Component(a))

\* converged after label 1 travelled two or more edges
C1_Witness ==
    /\ lp_pc = "done"
    /\ changes = 0
    /\ iterations >= 3
    /\ \E e \in entities_delta :
          /\ lp_labels[e] # e
          /\ ~Adjacent(e, lp_labels[e])

\* C2 as claimed: after label_propagation returns, converged or not, every
\* label equals the least key among the entities that carry it.
C2_LabelIsMinOfCarriers ==
    lp_pc = "done" =>
        \A e \in DOMAIN lp_labels : lp_labels[e] = Min(Carriers(lp_labels[e]))

\* C2 as amended: on return every label is a key of the carrier's component
\* no greater than any carrier's key; it is the least carrier key when the
\* loop converged.
C2_LabelBoundsCarriers ==
    lp_pc = "done" =>
        \A e \in DOMAIN lp_labels :
            /\ lp_labels[e] \in Component(e)
            /\ lp_labels[e] <= Min(Carriers(lp_labels[e]))
            /\ (changes = 0 => lp_labels[e] = Min(Carriers(lp_labels[e])))

\* returned at max_iters with a label that none of its carriers owns
C2_Witness ==
    /\ lp_pc = "done"
    /\ changes > 0
    /\ iterations = max_iters
    /\ \E e \in DOMAIN lp_labels : lp_labels[e] < Min(Carriers(lp_labels[e]))

\* C3: after n iterations the label of an entity is the least key within n
\* edges of it: a function of the entity set, the edge set and n alone,
\* whatever order the rows of an iteration were computed in; rows computed
\* during iteration n+1 already hold their value for n+1.
C3_LabelsIndependentOfOrder ==
    lp_pc \in {"iterate", "done"} =>
        /\ \A e \in DOMAIN lp_labels : lp_labels[e] = Min(Within(e, iterations))
        /\ \A e \in DOMAIN lp_labels_new : lp_labels_new[e] = Min(Within(e, iterations + 1))

\* mid-iteration: an entity's row is written with a changed label while a
\* neighbour that the new label would lower further is not yet written
C3_Witness ==
    /\ lp_pc = "iterate"
    /\ \E e \in DOMAIN lp_labels_new : \E f \in DOMAIN lp_labels \ DOMAIN lp_labels_new :
          /\ Adjacent(e, f)
          /\ lp_labels_new[e] # lp_labels[e]
          /\ lp_labels_new[e] < new_label(f, lp_labels, lp_edges)

\* =====================================================================
\* IDRRunner.run, PreflightStage.run, _record_run_start, _complete_run
\* =====================================================================
\* Two runners work against one store. A runner is named by the run id it
\* draws; run_0 is a row that an earlier run may have left behind. A store
\* call of the pipeline stages, of _record_run_start and of _complete_run may
\* raise; the calls of preflight are taken to answer (its schema migration
\* finds the schema current).
Runners == {"run_1", "run_2"}
RunIds == {"run_0"} \cup Runners

\* RunConfig() as run() builds it when no config is given
DefaultConfig == [strict |-> FALSE, dry_run |-> FALSE]
RunConfigs == [strict : BOOLEAN, dry_run : BOOLEAN]

\* the stages between _record_run_start and _complete_run, in call order, of a
\* run with the default RunConfig (strict and dry_run off)
StageOrder ==
    <<"entity_extraction", "identifier_extraction", "attribute_extraction",
      "edge_building", "label_propagation", "fuzzy_matching", "output_generation">>
StageNames == { StageOrder[i] : i \in 1..Len(StageOrder) } \cup {"dry_run_analysis"}
StageIndex(name) == CHOOSE i \in 1..Len(StageOrder) : StageOrder[i] = name

\* faulty variant: the dry-run analysis is followed by the output generation
next_stage_dry_then_output(name, cfg) ==
    CASE name = "fuzzy_matching" ->
            IF cfg.dry_run THEN "dry_run_analysis" ELSE "output_generation"
      [] name = "dry_run_analysis" -> "output_generation"
      [] name = "output_generation" -> "complete_update"
      [] OTHER -> StageOrder[StageIndex(name) + 1]

\* the position run() reaches when the block at position name is done:
\* "if not config.dry_run" chooses between steps 6
next_stage(name, cfg) ==
    CASE name = "fuzzy_matching" ->
            IF cfg.dry_run THEN "dry_run_analysis" ELSE "output_generation"
      [] name \in {"output_generation", "dry_run_analysis"} -> "complete_update"
      [] OTHER -> StageOrder[StageIndex(name) + 1]

\* "if config.strict": step 5b records no stage and does not call
\* run_fuzzy_matching; it creates an empty idr_work.fuzzy_results
stage_started(name, cfg) == ~(name = "fuzzy_matching" /\ cfg.strict)

\* the table a stage (re)writes first
StageTable(name) ==
    CASE name = "entity_extraction" -> "idr_work.entities_delta"
      [] name = "identifier_extraction" -> "idr_work.identifiers_all"
      [] name = "attribute_extraction" -> "idr_work.entity_attributes"
      [] name = "edge_building" -> "idr_work.edges_new"
      [] name = "label_propagation" -> "idr_work.lp_labels"
      [] name = "fuzzy_matching" -> "idr_work.fuzzy_results"
      [] name = "dry_run_analysis" -> "idr_out.dry_run_results"
      [] OTHER -> "idr_out.identity_resolved_membership_current"

\* messages of the exceptions a run meets
ConcurrentError(id) == "Concurrent run detected: " \o id
NoSourcesError == "No active source tables configured"
EngineError == "Catalog Error: table does not exist"
ValidationError ==
    "Metadata validation failed for rule.max_group_size: "
    \o "Invalid integer for rule.max_group_size: 'abc'. "
    \o "Check your idr_meta configuration for unsafe values."
\* a store call of any stage may raise; extract_identifiers also validates the
\* rule metadata it interpolates
stage_errors(name) ==
    IF name = "identifier_extraction" THEN {EngineError, ValidationError} ELSE {EngineError}
StaleMessage == "Run interrupted - stale RUNNING state detected"

\* error_safe: single quotes become double quotes (newlines are escaped and
\* carriage returns dropped; the model's messages hold neither)
error_safe(error) ==
    CASE error = ValidationError ->
            "Metadata validation failed for rule.max_group_size: "
            \o "Invalid integer for rule.max_group_size: \"abc\". "
            \o "Check your idr_meta configuration for unsafe values."
      [] OTHER -> error

Finished == {"returned", "raised"}
NoPending == [status |-> "NONE", error |-> "", handler |-> FALSE]
NoResult == [outcome |-> "none", status |-> "NONE", error |-> "", raised_by |-> "none"]

\* faulty variant: the lease is taken to be an hour longer
time_filter_late(row, t) == row.started_at < t - (StaleHours + 1)

\* time_filter: started_at < CURRENT_TIMESTAMP - INTERVAL '4 hours'
time_filter(row, t) == row.started_at < t - StaleHours

\* UPDATE idr_out.run_history SET status = 'INTERRUPTED', error_message = ...
\* WHERE status = 'RUNNING' AND time_filter
reclaim_stale(rh, t) ==
    [id \in DOMAIN rh |->
        IF rh[id].status = "RUNNING" /\ time_filter(rh[id], t)
        THEN [rh[id] EXCEPT !.status = "INTERRUPTED", !.error_message = StaleMessage]
        ELSE rh[id]]

\* faulty variant: the check looks for a status no row ever has
running_rows_none(rh) == { id \in DOMAIN rh : rh[id].status = "STARTED" }

\* SELECT run_id FROM idr_out.run_history WHERE status = 'RUNNING'
running_rows(rh) == { id \in DOMAIN rh : rh[id].status = "RUNNING" }

\* the except clause of run(): _complete_run(status="FAILED", error=str(e))
handler(error) == [status |-> "FAILED", error |-> error, handler |-> TRUE]

\* run() up to self._start_stage("preflight")
start_run(r) ==
    /\ pc[r] = "idle"
    /\ pc' = [pc EXCEPT ![r] = "preflight_reclaim"]
    /\ run_stage_metrics' = [run_stage_metrics EXCEPT ![r] = <<"preflight">>]
    /\ UNCHANGED <<run_history, stage_metrics, now, pending, result, mutated, check_overlap>>
    /\ UNCHANGED <<edgeVars, lpVars, config, metaVars, outVars>>

\* PreflightStage.run: "Clean up stale RUNNING runs"
preflight_reclaim(r) ==
    /\ pc[r] = "preflight_reclaim"
    /\ run_history' = reclaim_stale(run_history, now)
    /\ mutated' = [mutated EXCEPT ![r] =
                     IF run_history' # run_history THEN @ \cup {"idr_out.run_history"} ELSE @]
    /\ pc' = [pc EXCEPT ![r] = "preflight_check"]
    /\ UNCHANGED <<stage_metrics, now, run_stage_metrics, pending, result, check_overlap>>
    /\ UNCHANGED <<edgeVars, lpVars, config, metaVars, outVars>>

\* PreflightStage.run from "Check for recent concurrent runs" to its end, and
\* self._end_stage("preflight"). running[0] is any RUNNING row: the query has
\* no ORDER BY.
preflight_check(r) ==
    /\ pc[r] = "preflight_check"
    /\ \/ /\ running_rows(run_history) # {}
          /\ \E id \in running_rows(run_history) :
                pending' = [pending EXCEPT ![r] = handler(ConcurrentError(id))]
          /\ pc' = [pc EXCEPT ![r] = "complete_update"]
          /\ UNCHANGED check_overlap
       \/ /\ running_rows(run_history) = {}
          /\ pending' = [pending EXCEPT ![r] = handler(NoSourcesError)]
          /\ pc' = [pc EXCEPT ![r] = "complete_update"]
          /\ UNCHANGED check_overlap
       \/ /\ running_rows(run_history) = {}
          /\ pc' = [pc EXCEPT ![r] = "record"]
          /\ check_overlap' = (check_overlap \/ \E o \in Runners \ {r} : pc[o] = "record")
          /\ UNCHANGED pending
    /\ UNCHANGED <<run_history, stage_metrics, now, run_stage_metrics, result, mutated>>
    /\ UNCHANGED <<edgeVars, lpVars, config, metaVars, outVars>>

\* INSERT INTO idr_out.run_history ... VALUES (run_id, run_mode, 'RUNNING', now, ...)
insert_running(rh, id, t) ==
    [rh EXCEPT ![id] = [status |-> "RUNNING", started_at |-> t, error_message |-> NULL]]

\* IDRRunner._record_run_start
record_run_start(r) ==
    /\ pc[r] = "record"
    /\ \/ /\ run_history' = insert_running(run_history, r, now)
          /\ mutated' = [mutated EXCEPT ![r] = @ \cup {"idr_out.run_history"}]
          /\ pc' = [pc EXCEPT ![r] = StageOrder[1]]
          /\ UNCHANGED pending
       \/ /\ pending' = [pending EXCEPT ![r] = handler(EngineError)]
          /\ pc' = [pc EXCEPT ![r] = "complete_update"]
          /\ UNCHANGED <<run_history, mutated>>
    /\ UNCHANGED <<stage_metrics, now, run_stage_metrics, result, check_overlap>>
    /\ UNCHANGED <<edgeVars, lpVars, config, metaVars, outVars>>

\* the status run() hands to _complete_run after its last stage
final_status(cfg) == IF cfg.dry_run THEN "DRY_RUN_COMPLETE" ELSE "SUCCESS"

\* the entities_delta tables extract_entities can leave in the runner's model:
\* no row, or a row for every entity
ExtractedDeltas == {{}, EntityKeys}

\* faulty variant: run() goes on to identifier extraction with 0 entities
no_changes_never(entities) == FALSE

\* run(): "if entities == 0"
no_changes(entities) == entities = 0

\* One numbered block of run(): _start_stage, the stage call, _end_stage
\* (for step 5b under strict only the CREATE OR REPLACE of fuzzy_results). The
\* block returns or raises; entity extraction returns after replacing
\* idr_work.entities_delta, and run() completes at once when it counts 0 rows.
run_stage(r) ==
    /\ pc[r] \in StageNames
    /\ run_stage_metrics' = [run_stage_metrics EXCEPT ![r] =
                               IF stage_started(pc[r], config[r]) THEN Append(@, pc[r]) ELSE @]
    /\ \/ /\ \E delta \in ExtractedDeltas :
                /\ entities_delta' = IF pc[r] = "entity_extraction" THEN delta
                                     ELSE entities_delta
                /\ IF pc[r] = "entity_extraction" /\ no_changes(Cardinality(delta))
                   THEN /\ pc' = [pc EXCEPT ![r] = "complete_update"]
                        /\ pending' = [pending EXCEPT ![r] =
                                         [status |-> "SUCCESS_NO_CHANGES", error |-> "",
                                          handler |-> FALSE]]
                   ELSE /\ pc' = [pc EXCEPT ![r] = next_stage(pc[r], config[r])]
                        /\ IF next_stage(pc[r], config[r]) # "complete_update"
                           THEN UNCHANGED pending
                           ELSE pending' = [pending EXCEPT ![r] =
                                              [status |-> final_status(config[r]),
                                               error |-> "", handler |-> FALSE]]
          /\ mutated' = [mutated EXCEPT ![r] = @ \cup {StageTable(pc[r])}]
       \/ /\ \E error \in stage_errors(pc[r]) : pending' = [pending EXCEPT ![r] = handler(error)]
          /\ pc' = [pc EXCEPT ![r] = "complete_update"]
          /\ UNCHANGED <<mutated, entities_delta>>
    /\ UNCHANGED <<run_history, stage_metrics, now, result, check_overlap>>
    /\ UNCHANGED <<source_rows, rule, identifier_exclusion, identifiers_all, edges_new,
                   skipped_identifier_groups, stage, evidenceVars>>
    /\ UNCHANGED <<lpVars, config, metaVars, outVars>>

\* faulty variant: a FAILED status is not written
update_run_history_skip_failed(rh, id, status, error) ==
    IF rh[id].status = "NONE" \/ status = "FAILED" THEN rh
    ELSE [rh EXCEPT ![id].status = status]

\* UPDATE idr_out.run_history SET status = ..., [error_message = error_safe]
\* WHERE run_id = self.run_id
update_run_history(rh, id, status, error) ==
    IF rh[id].status = "NONE" THEN rh
    ELSE [rh EXCEPT ![id].status = status,
                    ![id].error_message = IF error # "" THEN error_safe(error) ELSE @]

\* What run() does with an exception of _complete_run: raised inside the try
\* block it reaches the except clause, which calls _complete_run again;
\* raised by that call it leaves run().
complete_raises(r, call) ==
    IF pending[r].handler
    THEN /\ pc' = [pc EXCEPT ![r] = "raised"]
         /\ result' = [result EXCEPT ![r] =
                         [outcome |-> "raised", status |-> pending[r].status,
                          error |-> pending[r].error, raised_by |-> call]]
         /\ UNCHANGED pending
    ELSE /\ pc' = [pc EXCEPT ![r] = "complete_update"]
         /\ pending' = [pending EXCEPT ![r] = handler(EngineError)]
         /\ UNCHANGED result

\* IDRRunner._complete_run: "Update run history"
complete_update(r) ==
    /\ pc[r] = "complete_update"
    /\ \/ /\ run_history' = update_run_history(run_history, r, pending[r].status, pending[r].error)
          /\ mutated' = [mutated EXCEPT ![r] =
                           IF run_history[r].status # "NONE"
                           THEN @ \cup {"idr_out.run_history"} ELSE @]
          /\ pc' = [pc EXCEPT ![r] = "complete_metrics"]
          /\ UNCHANGED <<pending, result>>
       \/ /\ complete_raises(r, "update")
          /\ UNCHANGED <<run_history, mutated>>
    /\ UNCHANGED <<stage_metrics, now, run_stage_metrics, check_overlap>>
    /\ UNCHANGED <<edgeVars, lpVars, config, metaVars, outVars>>

\* the rows of the first n INSERT INTO idr_out.stage_metrics of _complete_run
metric_rows(id, metrics, n) ==
    { [run_id |-> id, stage_name |-> metrics[i], stage_order |-> i] : i \in 1..n }

\* IDRRunner._complete_run: "Record stage metrics" and the return. The loop
\* inserts every metric, or raises at one of them with the earlier ones kept.
complete_metrics(r) ==
    /\ pc[r] = "complete_metrics"
    /\ \/ /\ stage_metrics' = stage_metrics
                \cup metric_rows(r, run_stage_metrics[r], Len(run_stage_metrics[r]))
          /\ mutated' = [mutated EXCEPT ![r] =
                           IF Len(run_stage_metrics[r]) > 0
                           THEN @ \cup {"idr_out.stage_metrics"} ELSE @]
          /\ pc' = [pc EXCEPT ![r] = "returned"]
          /\ result' = [result EXCEPT ![r] =
                          [outcome |-> "returned", status |-> pending[r].status,
                           error |-> pending[r].error, raised_by |-> "none"]]
          /\ UNCHANGED pending
       \/ /\ \E n \in 0..(Len(run_stage_metrics[r]) - 1) :
                /\ stage_metrics' = stage_metrics \cup metric_rows(r, run_stage_metrics[r], n)
                /\ mutated' = [mutated EXCEPT ![r] =
                                 IF n > 0 THEN @ \cup {"idr_out.stage_metrics"} ELSE @]
          /\ complete_raises(r, "metrics")
    /\ UNCHANGED <<run_history, now, run_stage_metrics, check_overlap>>
    /\ UNCHANGED <<edgeVars, lpVars, config, metaVars, outVars>>

\* the store's clock advances by an hour
tick ==
    /\ now < MaxClock
    /\ now' = now + 1
    /\ UNCHANGED <<run_history, stage_metrics, pc, run_stage_metrics, pending, result,
                   mutated, check_overlap>>
    /\ UNCHANGED <<edgeVars, lpVars, config, metaVars, outVars>>

\* ---------------------------------------------------------------------
\* Specification Spec: the two runners, started at any time, over a store
\* whose run_history is empty or holds the RUNNING row of a run that died
\* three, four or five hours ago.
\* ---------------------------------------------------------------------
LeftBehind ==
    {NoRow} \cup { [status |-> "RUNNING", started_at |-> 0 - age, error_message |-> NULL] :
                     age \in (StaleHours - 1)..(StaleHours + 1) }

Init ==
    /\ source_rows = EmptyFn
    /\ rule = EmptyFn
    /\ identifier_exclusion = {}
    /\ entities_delta = {}
    /\ identifiers_all = {}
    /\ edges_new = {}
    /\ skipped_identifier_groups = {}
    /\ EvidenceOff
    /\ stage = "off"
    /\ LpIdle
    /\ \E row \in LeftBehind :
          run_history = [id \in RunIds |-> IF id = "run_0" THEN row ELSE NoRow]
    /\ stage_metrics = {}
    /\ now = 0
    /\ pc = [r \in Runners |-> "idle"]
    /\ run_stage_metrics = [r \in Runners |-> <<>>]
    /\ pending = [r \in Runners |-> NoPending]
    /\ result = [r \in Runners |-> NoResult]
    /\ mutated = [r \in Runners |-> {}]
    /\ check_overlap = FALSE
    /\ config = [r \in Runners |-> DefaultConfig]
    /\ MetaIdle
    /\ OutIdle

Next ==
    \/ \E r \in Runners : start_run(r)
    \/ \E r \in Runners : preflight_reclaim(r)
    \/ \E r \in Runners : preflight_check(r)
    \/ \E r \in Runners : record_run_start(r)
    \/ \E r \in Runners : run_stage(r)
    \/ \E r \in Runners : complete_update(r)
    \/ \E r \in Runners : complete_metrics(r)
    \/ tick

Spec == Init /\ [][Next]_vars

\* ---------------------------------------------------------------------
\* Claims about the run lock and the run's terminal row (under Spec)
\* ---------------------------------------------------------------------
RunningCount == Cardinality({ id \in RunIds : run_history[id].status = "RUNNING" })
IsConcurrentError(error) == \E id \in RunIds : error = ConcurrentError(id)
ReclaimStep(r) == pc[r] = "preflight_reclaim" /\ pc'[r] = "preflight_check"
CheckStep(r) == pc[r] = "preflight_check" /\ pc'[r] # "preflight_check"
Recorded(r) == run_history[r].status # "NONE"

\* C7 (as stated): at most one run_history row has status RUNNING.
C7_AtMostOneRunning == RunningCount <= 1

\* C7 (amended): at most one run_history row has status RUNNING unless a
\* runner passed the preflight check while another runner that had passed it
\* had not yet inserted its RUNNING row.
C7_AtMostOneRunningUnlessOverlap == (~check_overlap) => RunningCount <= 1

C7_Witness ==
    /\ ~check_overlap
    /\ RunningCount = 1
    /\ \E r \in Runners, o \in Runners :
          /\ run_history[r].status = "RUNNING"
          /\ pc[o] = "returned"
          /\ result[o].error = ConcurrentError(r)

\* C8 (as stated): a run whose preflight check finds a RUNNING row younger
\* than 4 hours fails with an error naming a RUNNING run id, and a run that
\* ended in that error has changed no table.
C8_ConcurrentRunFailsWithoutMutation ==
    [][\A r \in Runners :
          /\ (CheckStep(r) /\ \E id \in RunIds :
                                 /\ run_history[id].status = "RUNNING"
                                 /\ now - run_history[id].started_at < StaleHours)
                => /\ pending'[r].status = "FAILED"
                   /\ \E id \in running_rows(run_history) :
                         pending'[r].error = ConcurrentError(id)
          /\ (pc'[r] \in Finished /\ IsConcurrentError(result'[r].error))
                => mutated'[r] = {}]_vars

\* the part of C8 that holds: the run fails and names a RUNNING run id
C8_ConcurrentRunFails ==
    [][\A r \in Runners :
          (CheckStep(r) /\ running_rows(run_history) # {})
             => /\ pending'[r].status = "FAILED"
                /\ \E id \in running_rows(run_history) :
                      pending'[r].error = ConcurrentError(id)]_vars

\* C9 (as stated): preflight marks every RUNNING row of age 4 hours or more
\* INTERRUPTED with the stale message, and a check that finds no RUNNING row
\* raises no concurrency error.
C9_StaleAtFourHoursReclaimed ==
    [][\A r \in Runners :
          /\ ReclaimStep(r) =>
                \A id \in RunIds :
                   (run_history[id].status = "RUNNING" /\ now - run_history[id].started_at >= StaleHours)
                      => /\ run_history'[id].status = "INTERRUPTED"
                         /\ run_history'[id].error_message = StaleMessage
          /\ (CheckStep(r) /\ running_rows(run_history) = {})
                => ~IsConcurrentError(pending'[r].error)]_vars

\* C9 (amended): preflight marks every RUNNING row of age strictly more than
\* 4 hours INTERRUPTED with the stale message and leaves every other row as
\* it was, and a check that finds no RUNNING row raises no concurrency error.
C9_StaleOverFourHoursReclaimed ==
    [][\A r \in Runners :
          /\ ReclaimStep(r) =>
                \A id \in RunIds :
                   IF run_history[id].status = "RUNNING" /\ now - run_history[id].started_at > StaleHours
                   THEN /\ run_history'[id].status = "INTERRUPTED"
                        /\ run_history'[id].error_message = StaleMessage
                   ELSE run_history'[id] = run_history[id]
          /\ (CheckStep(r) /\ running_rows(run_history) = {})
                => ~IsConcurrentError(pending'[r].error)]_vars

C9_Witness ==
    /\ run_history["run_0"].status = "INTERRUPTED"
    /\ run_history["run_0"].error_message = StaleMessage
    /\ \E r \in Runners : run_history[r].status = "RUNNING" /\ pc[r] \in StageNames

StoredMessage(error) ==
    IF error = ValidationError
    THEN "Metadata validation failed for rule.max_group_size: "
         \o "Invalid integer for rule.max_group_size: \"abc\". "
         \o "Check your idr_meta configuration for unsafe values."
    ELSE error

EdgesIdle ==
    /\ source_rows = EmptyFn
    /\ rule = EmptyFn
    /\ identifier_exclusion = {}
    /\ entities_delta = {}
    /\ identifiers_all = {}
    /\ edges_new = {}
    /\ skipped_identifier_groups = {}
    /\ EvidenceOff
    /\ stage = "off"

InitRun ==
    /\ EdgesIdle
    /\ LpIdle
    /\ \E row \in LeftBehind :
          run_history = [id \in RunIds |-> IF id = "run_0" THEN row ELSE NoRow]
    /\ stage_metrics = {}
    /\ now = 0
    /\ pc = [r \in Runners |-> IF r = "run_1" THEN "idle" ELSE "off"]
    /\ run_stage_metrics = [r \in Runners |-> <<>>]
    /\ pending = [r \in Runners |-> NoPending]
    /\ result = [r \in Runners |-> NoResult]
    /\ mutated = [r \in Runners |-> {}]
    /\ check_overlap = FALSE
    /\ \E cfg \in RunConfigs :
          config = [r \in Runners |-> IF r = "run_1" THEN cfg ELSE DefaultConfig]
    /\ MetaIdle
    /\ OutIdle

SpecRun == InitRun /\ [][Next]_vars

IsPrefix(s, t) == Len(s) <= Len(t) /\ \A i \in 1..Len(s) : s[i] = t[i]

\* the stage order the specification gives for a configuration
ExpectedStages(cfg) ==
    <<"preflight", "entity_extraction", "identifier_extraction", "attribute_extraction",
      "edge_building", "label_propagation">>
    \o (IF cfg.strict THEN <<>> ELSE <<"fuzzy_matching">>)
    \o <<IF cfg.dry_run THEN "dry_run_analysis" ELSE "output_generation">>

\* C11: the stages a run has started are, in order, an initial part of
\* preflight, entity extraction, identifier extraction, attribute extraction,
\* edge building, label propagation, fuzzy matching (not when strict), then
\* output generation or dry-run analysis; the RUNNING row is recorded after
\* preflight and before entity extraction; a run that returns SUCCESS or
\* DRY_RUN_COMPLETE has started all of them, each once.
C11_StagesInFixedOrder ==
    \A r \in Runners :
       /\ IsPrefix(run_stage_metrics[r], ExpectedStages(config[r]))
       /\ Len(run_stage_metrics[r]) >= 2 => Recorded(r)
       /\ Recorded(r) => (Len(run_stage_metrics[r]) >= 1 /\ pc[r] # "record")
       /\ (pc[r] = "returned" /\ result[r].status \in {"SUCCESS", "DRY_RUN_COMPLETE"})
             => run_stage_metrics[r] = ExpectedStages(config[r])

C11_Witness ==
    \E r \in Runners :
       /\ pc[r] = "returned"
       /\ config[r].strict
       /\ config[r].dry_run
       /\ result[r].status = "DRY_RUN_COMPLETE"
       /\ Len(run_stage_metrics[r]) = 7

\* =====================================================================
\* Metadata values on their way into generated SQL
\* (_validate_metadata_value, build_where_clause, ProfileBuilder)
\* =====================================================================
\* A value of an idr_meta column is clean (every validator accepts it) or
\* hostile (the validator of its kind raises on it); optional columns may be
\* absent (NULL, empty or 0).
MetaFields ==
    {"source_table.table_id", "source_table.table_fqn", "source_table.entity_key_expr",
     "source_table.watermark_column", "source_table.watermark_lookback_minutes",
     "run_state.last_watermark_value",
     "identifier_mapping.table_id", "identifier_mapping.identifier_type",
     "identifier_mapping.identifier_value_expr", "rule.max_group_size", "rule.canonicalize",
     "entity_attribute_mapping.table_id", "entity_attribute_mapping.attribute_name",
     "entity_attribute_mapping.attribute_expr",
     "fuzzy_rule.rule_id", "fuzzy_rule.blocking_key_expr", "fuzzy_rule.score_expr",
     "fuzzy_rule.threshold",
     "survivorship_rule.attribute_name", "survivorship_rule.source_priority_list"}
OptionalFields ==
    {"source_table.watermark_column", "source_table.watermark_lookback_minutes",
     "run_state.last_watermark_value", "survivorship_rule.source_priority_list"}

Present(m, fields) == { f \in fields : m[f] # "absent" }

\* the stages of a default run that generate SQL from metadata, in call order
MetaStages ==
    <<"extract_entities", "extract_identifiers", "extract_attributes",
      "run_fuzzy_matching", "build_profiles">>
MetaStageIndex(name) == CHOOSE i \in 1..Len(MetaStages) : MetaStages[i] = name

\* get_source_fqn and get_entity_key_expr validate what they return
source_lookup_fields == {"source_table.table_fqn", "source_table.entity_key_expr"}

\* the fields a stage hands to _validate_metadata_value before it executes
validates(name, m) ==
    CASE name = "extract_entities" ->
            {"source_table.table_id", "source_table.table_fqn", "source_table.entity_key_expr"}
            \cup Present(m, {"source_table.watermark_column"})
      [] name = "extract_identifiers" ->
            {"identifier_mapping.table_id", "identifier_mapping.identifier_type",
             "identifier_mapping.identifier_value_expr", "rule.max_group_size",
             "rule.canonicalize"} \cup source_lookup_fields
      [] name = "extract_attributes" ->
            {"entity_attribute_mapping.table_id", "entity_attribute_mapping.attribute_name",
             "entity_attribute_mapping.attribute_expr"} \cup source_lookup_fields
      [] name = "run_fuzzy_matching" ->
            {"fuzzy_rule.rule_id", "fuzzy_rule.blocking_key_expr", "fuzzy_rule.score_expr",
             "fuzzy_rule.threshold"}
      [] OTHER -> {}

\* build_where_clause: "1=1" in FULL mode or without watermark, else the
\* column, the last watermark and a positive lookback are written into it
build_where_clause(mode, m) ==
    IF \/ mode = "FULL"
       \/ m["run_state.last_watermark_value"] = "absent"
       \/ m["source_table.watermark_column"] = "absent"
    THEN {}
    ELSE {"source_table.watermark_column", "run_state.last_watermark_value"}
         \cup Present(m, {"source_table.watermark_lookback_minutes"})

\* the fields whose values a stage writes into the statements it executes
interpolates(name, mode, m) ==
    CASE name = "extract_entities" ->
            {"source_table.table_id", "source_table.table_fqn", "source_table.entity_key_expr"}
            \cup Present(m, {"source_table.watermark_column"})
            \cup build_where_clause(mode, m)
      [] name = "extract_identifiers" ->
            {"identifier_mapping.table_id", "identifier_mapping.identifier_type",
             "identifier_mapping.identifier_value_expr", "rule.max_group_size"}
            \cup source_lookup_fields
      [] name = "extract_attributes" ->
            {"entity_attribute_mapping.table_id", "entity_attribute_mapping.attribute_name",
             "entity_attribute_mapping.attribute_expr"} \cup source_lookup_fields
      [] name = "run_fuzzy_matching" ->
            {"fuzzy_rule.rule_id", "fuzzy_rule.blocking_key_expr", "fuzzy_rule.score_expr",
             "fuzzy_rule.threshold", "entity_attribute_mapping.attribute_name"}
      [] OTHER ->
            {"source_table.table_id", "source_table.table_fqn", "source_table.entity_key_expr",
             "entity_attribute_mapping.attribute_expr", "survivorship_rule.attribute_name"}
            \cup Present(m, {"source_table.watermark_column",
                             "survivorship_rule.source_priority_list"})

\* One stage builds and executes its SQL: it raises at the first value a
\* validator rejects, otherwise the statement carries the values it names.
generate_sql(name) ==
    /\ meta_pc = name
    /\ IF \E f \in validates(name, meta) : meta[f] = "hostile"
       THEN /\ meta_pc' = "raised"
            /\ UNCHANGED <<validated, interpolated>>
       ELSE /\ validated' = validated \cup validates(name, meta)
            /\ interpolated' = interpolated \cup
                 { [stage |-> name, field |-> f, validated |-> f \in validated',
                    hostile |-> meta[f] = "hostile"] : f \in interpolates(name, run_mode, meta) }
            /\ meta_pc' = IF MetaStageIndex(name) < Len(MetaStages)
                          THEN MetaStages[MetaStageIndex(name) + 1] ELSE "done"
    /\ UNCHANGED <<run_mode, meta>>
    /\ UNCHANGED <<edgeVars, lpVars, runVars, outVars>>

\* ---------------------------------------------------------------------
\* Specification SpecMeta: a default (non-dry, non-strict) run in FULL or INCR
\* mode over metadata in which at most MaxHostile values are hostile.
\* ---------------------------------------------------------------------
RECURSIVE HostileSets(_)
HostileSets(k) ==
    IF k = 0 THEN {{}}
    ELSE HostileSets(k - 1) \cup { h \cup {f} : h \in HostileSets(k - 1), f \in MetaFields }

MetaValues ==
    { [f \in MetaFields |->
         IF f \in ha[1] THEN "hostile" ELSE IF f \in ha[2] THEN "absent" ELSE "clean"] :
        ha \in HostileSets(MaxHostile) \X SUBSET OptionalFields }

InitMeta ==
    /\ EdgesIdle
    /\ LpIdle
    /\ RunIdle
    /\ run_mode \in {"FULL", "INCR"}
    /\ meta \in MetaValues
    /\ validated = {}
    /\ interpolated = {}
    /\ meta_pc = MetaStages[1]
    /\ OutIdle

NextMeta == \E i \in 1..Len(MetaStages) : generate_sql(MetaStages[i])

SpecMeta == InitMeta /\ [][NextMeta]_vars

\* C12: every metadata value written into an executed statement has passed a
\* validator earlier in the run.
C12_InterpolatedValuesValidated ==
    \A s \in interpolated : s.validated

\* the part of C12 that holds: outside build_where_clause and ProfileBuilder
\* every interpolated value has passed a validator, and none is hostile
C12_StageValuesValidated ==
    \A s \in interpolated :
       (/\ s.stage # "build_profiles"
        /\ s.field \notin {"run_state.last_watermark_value",
                           "source_table.watermark_lookback_minutes"})
          => (s.validated /\ ~s.hostile)

\* =====================================================================
\* GraphStage.run_fuzzy_matching
\* A nullable SQL value is a set of at most one value: {} is NULL.
\* =====================================================================

\* attribute names of idr_meta.entity_attribute_mapping
AttrNames == {"zip", "n"}
ZipValues == {1}
ScoreValues == {1, 2, 3}
Thresholds == {90}

max_block_size == 10000

\* an active row of idr_meta.fuzzy_rule: blocks on the attribute zip and
\* scores a pair by 100 - 10 * ABS(<a>.n - <b>.n)
FuzzyRule(t) ==
    [rule_id |-> "r1", blocking_key_expr |-> "zip",
     score_expr |-> "100 - 10 * ABS(<a>.n - <b>.n)", threshold |-> t]

\* known_attrs & tokens_lower for the expressions of FuzzyRule
referenced_attrs(r) == AttrNames

\* CREATE TABLE idr_work.cluster_attributes: SELECT DISTINCT l.label, ...
cluster_attributes(labels, attrs) ==
    { [resolved_id |-> labels[a.entity_key],
       attribute_name |-> a.attribute_name,
       attribute_value |-> a.attribute_value] :
        a \in { x \in attrs : x.entity_key \in DOMAIN labels } }

\* MAX(CASE WHEN attribute_name = name THEN attribute_value END)
pivot_col(ca, rid, name) ==
    LET S == { c.attribute_value :
                 c \in { x \in ca : x.resolved_id = rid /\ x.attribute_name = name } }
    IN IF S = {} THEN {} ELSE {Max(S)}

\* the rule-scoped profile table: one row per resolved_id with a referenced attribute
profile_table(ca, r) ==
    { [resolved_id |-> rid, zip |-> pivot_col(ca, rid, "zip"), n |-> pivot_col(ca, rid, "n")] :
        rid \in { c.resolved_id : c \in { x \in ca : x.attribute_name \in referenced_attrs(r) } } }

\* blocking_key_expr evaluated on one profile row
blocking_key(row) == row.zip

\* score_expr evaluated on a pair of profile rows; NULL when an operand is
score(a, b) ==
    IF a.n = {} \/ b.n = {} THEN {}
    ELSE LET x == Max(a.n)
             y == Max(b.n)
         IN {100 - 10 * (IF x >= y THEN x - y ELSE y - x)}

\* the CTE profile_with_bk
profile_with_bk(ca, r) == { row \in profile_table(ca, r) : blocking_key(row) # {} }

\* the CTEs block_sizes and valid_blocks
valid_blocks(ca, r) ==
    { bk \in { blocking_key(row) : row \in profile_with_bk(ca, r) } :
        Cardinality({ row \in profile_with_bk(ca, r) : blocking_key(row) = bk })
          <= max_block_size }

\* md5 of a resolved id, as its rank in the order of the hashes
md5(rid) == MaxEntities + 1 - rid

\* faulty variant: both orderings of a pair pass
id_compare_unordered(a, b) == md5(a.resolved_id) # md5(b.resolved_id)

\* id_compare: md5(a.resolved_id) < md5(b.resolved_id)
id_compare(a, b) == md5(a.resolved_id) < md5(b.resolved_id)

\* the CTE scored_pairs
scored_pairs(ca, r) ==
    { [left_id |-> p[1].resolved_id, right_id |-> p[2].resolved_id, score |-> score(p[1], p[2])] :
        p \in { q \in profile_with_bk(ca, r) \X profile_with_bk(ca, r) :
                  /\ blocking_key(q[1]) = blocking_key(q[2])
                  /\ id_compare(q[1], q[2])
                  /\ blocking_key(q[1]) \in valid_blocks(ca, r) } }

\* faulty variant: the threshold itself does not pass
passes_threshold_strict(sc, threshold) == sc # {} /\ Max(sc) > threshold

\* WHERE score >= threshold; a NULL score does not pass
passes_threshold(sc, threshold) == sc # {} /\ Max(sc) >= threshold

\* the rows one rule inserts into idr_work.fuzzy_edges
fuzzy_edges_insert(ca, r) ==
    { [left_create_id |-> p.left_id, right_create_id |-> p.right_id, score |-> Max(p.score)] :
        p \in { q \in scored_pairs(ca, r) : passes_threshold(q.score, r.threshold) } }

\* CREATE TABLE idr_work.lp_fuzzy_labels
lp_fuzzy_labels_init(ca) == [rid \in { c.resolved_id : c \in ca } |-> rid]

\* the two edge branches of candidate_labels read fuzzy_edges in both directions
lp_fuzzy_edges(fe) ==
    { <<e.left_create_id, e.right_create_id>> : e \in fe }
      \cup { <<e.right_create_id, e.left_create_id>> : e \in fe }

\* for i in range(max_iters): propagate, count the changes, swap, break on 0
RECURSIVE lp_fuzzy_loop(_, _, _)
lp_fuzzy_loop(labels, edges, iters) ==
    IF iters = 0 THEN labels
    ELSE LET curr == [e \in candidate_keys(labels, edges) |-> new_label(e, labels, edges)]
         IN IF count_changes(labels, curr) = 0 THEN curr
            ELSE lp_fuzzy_loop(curr, edges, iters - 1)

\* CREATE TABLE idr_work.fuzzy_results AS SELECT entity_key, label FROM lp_fuzzy_labels
fuzzy_results_select(labels) ==
    { [resolved_id |-> rid, super_cluster_id |-> labels[rid]] : rid \in DOMAIN labels }

\* faulty variant: the strict flag is not consulted
fuzzy_enabled_always(cfg) == TRUE

\* if config.strict: ... else: graph.run_fuzzy_matching(config.max_iters)
fuzzy_enabled(cfg) == ~cfg.strict

\* faulty variant: a dry run goes on to output generation
after_fuzzy_always_output(cfg) == "output_generation"

\* if not config.dry_run: generate_output() else: generate_dry_run_output()
after_fuzzy(cfg) == IF cfg.dry_run THEN "dry_run_analysis" ELSE "output_generation"

\* the whole of run_fuzzy_matching, called when the run is not strict
run_fuzzy_matching ==
    /\ out_pc = "fuzzy_matching"
    /\ fuzzy_enabled(config[run_id])
    /\ IF fuzzy_rule = {}
       THEN /\ fuzzy_results' = {}
            /\ UNCHANGED fuzzy_edges
       ELSE LET ca == cluster_attributes(lp_labels, entity_attributes)
                fe == UNION { fuzzy_edges_insert(ca, r) : r \in fuzzy_rule }
            IN /\ fuzzy_edges' = fe
               /\ fuzzy_results' =
                    fuzzy_results_select(
                        lp_fuzzy_loop(lp_fuzzy_labels_init(ca), lp_fuzzy_edges(fe), max_iters))
    /\ out_pc' = after_fuzzy(config[run_id])
    /\ UNCHANGED <<run_id, warnings, dialect, entity_attributes, fuzzy_rule, tableVars>>
    /\ UNCHANGED <<edgeVars, lpVars, runVars, metaVars>>

\* ---------------------------------------------------------------------
\* Specification SpecFuzzy: fuzzy matching over every converged labelling of
\* MaxEntities entities and every attribute table within the value sets.
\* ---------------------------------------------------------------------

\* labellings label propagation converges to: every cluster is labelled by
\* its least entity key
ConvergedLabels(entities) ==
    { l \in [entities -> entities] : \A e \in entities : l[e] <= e /\ l[l[e]] = l[e] }

\* what extract_attributes can leave for one entity: nothing, or a value of n
\* with or without a zip
AttrChoices == {<<{}, {}>>} \cup ((SUBSET ZipValues) \X { {v} : v \in ScoreValues })

attribute_rows(choice) ==
    UNION { { [entity_key |-> e, attribute_name |-> "zip", attribute_value |-> v] :
                v \in choice[e][1] }
            \cup { [entity_key |-> e, attribute_name |-> "n", attribute_value |-> v] :
                     v \in choice[e][2] } : e \in DOMAIN choice }

FuzzyRules == {{}} \cup { {FuzzyRule(t)} : t \in Thresholds }

InitFuzzy ==
    /\ source_rows = EmptyFn
    /\ rule = EmptyFn
    /\ identifier_exclusion = {}
    /\ entities_delta = EntityKeys
    /\ identifiers_all = {}
    /\ edges_new = {}
    /\ skipped_identifier_groups = {}
    /\ EvidenceOff
    /\ stage = "edges_built"
    /\ max_iters \in 1..MaxIters
    /\ lp_labels \in ConvergedLabels(EntityKeys)
    /\ lp_labels_new = EmptyFn
    /\ lp_edges = {}
    /\ iterations = 0
    /\ changes = 0
    /\ lp_return = <<0, 0>>
    /\ lp_pc = "done"
    /\ RunTablesIdle
    /\ config = [r \in {"run_1"} |-> DefaultConfig]
    /\ MetaIdle
    /\ run_id = "run_1"
    /\ dialect = "duckdb"
    /\ out_pc = "fuzzy_matching"
    /\ warnings = {}
    /\ \E choice \in [EntityKeys -> AttrChoices] : entity_attributes = attribute_rows(choice)
    /\ fuzzy_rule \in FuzzyRules
    /\ fuzzy_edges = {}
    /\ fuzzy_results = {}
    /\ membership = {}
    /\ clusters = {}
    /\ edges_current = {}
    /\ cluster_confidence = {}
    /\ dry_run_results = {}
    /\ dry_run_summary = {}
    /\ before = [membership |-> {}, clusters |-> {}, edges |-> {}]

NextFuzzy == run_fuzzy_matching

SpecFuzzy == InitFuzzy /\ [][NextFuzzy]_vars

\* ---------------------------------------------------------------------
\* C13
\* ---------------------------------------------------------------------

\* the attribute values of a cluster, read from the entity tables
ClusterValues(rid, name) ==
    { a.attribute_value :
        a \in { x \in entity_attributes :
                  /\ x.attribute_name = name
                  /\ x.entity_key \in DOMAIN lp_labels
                  /\ lp_labels[x.entity_key] = rid } }

\* the clusters the rule can block: they carry a zip
Blocked == { rid \in { lp_labels[e] : e \in DOMAIN lp_labels } : ClusterValues(rid, "zip") # {} }

\* the pairs of distinct clusters of one block whose score is defined
ScoredPairs ==
    { p \in Blocked \X Blocked :
        /\ p[1] < p[2]
        /\ Max(ClusterValues(p[1], "zip")) = Max(ClusterValues(p[2], "zip"))
        /\ ClusterValues(p[1], "n") # {} /\ ClusterValues(p[2], "n") # {} }

PairScore(p) ==
    LET x == Max(ClusterValues(p[1], "n"))
        y == Max(ClusterValues(p[2], "n"))
    IN 100 - 10 * (IF x >= y THEN x - y ELSE y - x)

Linked(p) ==
    \E e \in fuzzy_edges : {e.left_create_id, e.right_create_id} = {p[1], p[2]}

FuzzyRan == out_pc \in {"output_generation", "dry_run_analysis"} /\ fuzzy_rule # {}

\* C13: after fuzzy matching with a rule, a pair of clusters of one valid
\* block is linked by a fuzzy edge exactly when its score is at least the
\* rule's threshold; a score equal to the threshold links, any score below
\* it does not.
C13_ThresholdInclusive ==
    FuzzyRan =>
        \A r \in fuzzy_rule : \A p \in ScoredPairs :
            Linked(p) <=> PairScore(p) >= r.threshold

\* a pair scoring exactly the threshold is linked, next to a pair below it
\* that is not
C13_Witness ==
    /\ FuzzyRan
    /\ \E r \in fuzzy_rule :
         /\ \E p \in ScoredPairs : PairScore(p) = r.threshold /\ Linked(p)
         /\ \E p \in ScoredPairs : PairScore(p) < r.threshold /\ ~Linked(p)

\* =====================================================================
\* GraphStage.label_propagation as one call of the runner
\* =====================================================================

\* the loop of label_propagation: the labels, the iteration count and the
\* last change count it stops with
RECURSIVE lp_loop(_, _, _, _)
lp_loop(labels, edges, done, limit) ==
    LET curr == [e \in candidate_keys(labels, edges) |-> new_label(e, labels, edges)]
        ch == count_changes(labels, curr)
    IN IF lp_converged(ch) \/ done + 1 = limit
       THEN [labels |-> curr, iterations |-> done + 1, changes |-> ch]
       ELSE lp_loop(curr, edges, done + 1, limit)

\* iterations, clusters = graph.label_propagation(config.max_iters)
label_propagation ==
    /\ stage = "edges_built"
    /\ out_pc = "label_propagation"
    /\ LET r == lp_loop(lp_labels_init(entities_delta), lp_edges_select(edges_new), 0, max_iters)
       IN /\ lp_labels' = r.labels
          /\ iterations' = r.iterations
          /\ changes' = r.changes
          /\ lp_return' = <<r.iterations, count_clusters(r.labels)>>
    /\ lp_edges' = lp_edges_select(edges_new)
    /\ lp_labels_new' = EmptyFn
    /\ lp_pc' = "done"
    /\ out_pc' = "fuzzy_matching"
    /\ UNCHANGED max_iters
    /\ UNCHANGED <<run_id, warnings, dialect, fuzzyVars, tableVars>>
    /\ UNCHANGED <<edgeVars, runVars, metaVars>>

\* =====================================================================
\* IDRRunner.run, the strict branch of step 5b
\* =====================================================================

\* faulty variant: every cluster is written as its own super cluster
strict_fuzzy_results_identity(labels) ==
    { [resolved_id |-> labels[e], super_cluster_id |-> labels[e]] : e \in DOMAIN labels }

\* CREATE OR REPLACE TABLE idr_work.fuzzy_results (resolved_id, super_cluster_id)
strict_fuzzy_results(labels) == {}

skip_fuzzy_matching ==
    /\ out_pc = "fuzzy_matching"
    /\ ~fuzzy_enabled(config[run_id])
    /\ warnings' = warnings \cup {"Fuzzy matching skipped (--strict mode)"}
    /\ fuzzy_results' = strict_fuzzy_results(lp_labels)
    /\ out_pc' = after_fuzzy(config[run_id])
    /\ UNCHANGED <<run_id, dialect, entity_attributes, fuzzy_rule, fuzzy_edges, tableVars>>
    /\ UNCHANGED <<edgeVars, lpVars, runVars, metaVars>>

\* =====================================================================
\* OutputStage
\* =====================================================================

\* the keys of DIALECT_CONFIG
Dialects == {"duckdb", "snowflake", "bigquery", "databricks"}

\* if self.adapter.dialect in ("duckdb", "postgres")
uses_on_conflict(d) == d \in {"duckdb", "postgres"}

same_key(t, r, key_cols) == \A c \in key_cols : t[c] = r[c]

\* INSERT INTO target (insert_cols) source_query ON CONFLICT (keys) DO UPDATE SET
\* col = EXCLUDED.col; at both call sites update_cols are all columns but the
\* keys and insert_cols are all columns
upsert_on_conflict(target, source, key_cols) ==
    { IF \E r \in source : same_key(t, r, key_cols)
      THEN CHOOSE r \in source : same_key(t, r, key_cols)
      ELSE t : t \in target }
      \cup { r \in source : \A t \in target : ~same_key(t, r, key_cols) }

\* MERGE INTO target T USING (source_query) S ON keys
\* WHEN MATCHED THEN UPDATE SET col = S.col WHEN NOT MATCHED THEN INSERT
upsert_merge(target, source, key_cols) ==
    { t \in target : \A r \in source : ~same_key(t, r, key_cols) }
      \cup { r \in source : \E t \in target : same_key(t, r, key_cols) }
      \cup { r \in source : \A t \in target : ~same_key(t, r, key_cols) }

\* faulty variant: rows whose key is already in the table are not updated
upsert_insert_only(target, source, key_cols, d) ==
    target \cup { r \in source : \A t \in target : ~same_key(t, r, key_cols) }

\* OutputStage.upsert
upsert(target, source, key_cols, d) ==
    IF uses_on_conflict(d)
    THEN upsert_on_conflict(target, source, key_cols)
    ELSE upsert_merge(target, source, key_cols)

\* SELECT DISTINCT label AS resolved_id FROM idr_work.lp_labels
impacted_resolved_ids(labels) == { labels[e] : e \in DOMAIN labels }

\* fr.super_cluster_id of "LEFT JOIN idr_work.fuzzy_results fr ON l.label = fr.resolved_id":
\* the joined values, or one NULL when no row joins
left_join_super(label, fr) ==
    LET S == { {f.super_cluster_id} : f \in { x \in fr : x.resolved_id = label } }
    IN IF S = {} THEN {{}} ELSE S

\* source_query of the membership upsert
membership_source(labels, fr, rid) ==
    { [entity_key |-> p[1], resolved_id |-> labels[p[1]], run_id |-> rid,
       super_cluster_id |-> p[2]] :
        p \in { q \in (DOMAIN labels) \X ({{}} \cup { {f.super_cluster_id} : f \in fr }) :
                  q[2] \in left_join_super(labels[q[1]], fr) } }

edge_key(row) == <<row.left_entity_key, row.right_entity_key, row.identifier_type>>

\* the rows of edges_new with no row of their key in the target
edges_not_matched(target, new) ==
    { n \in new : \A t \in target : edge_key(t) # edge_key(n) }

\* DO UPDATE SET / WHEN MATCHED THEN UPDATE SET
\* last_seen_ts = first_seen_ts of the source row, run_id = its run_id
edges_matched_update(target, new, rid, ts) ==
    { IF \E n \in new : edge_key(n) = edge_key(t)
      THEN [t EXCEPT !.last_seen_ts = {ts}, !.run_id = rid]
      ELSE t : t \in target }

\* INSERT INTO identity_edges_current (left_entity_key, right_entity_key,
\* identifier_type, identifier_value_norm, first_seen_ts, run_id) ... ON CONFLICT:
\* last_seen_ts is not in the column list and has no default, so it is NULL
edges_on_conflict(target, new, rid, ts) ==
    edges_matched_update(target, new, rid, ts)
      \cup { [left_entity_key |-> n.left_entity_key,
              right_entity_key |-> n.right_entity_key,
              identifier_type |-> n.identifier_type,
              identifier_value_norm |-> n.identifier_value_norm,
              first_seen_ts |-> {ts},
              last_seen_ts |-> {},
              run_id |-> rid] : n \in edges_not_matched(target, new) }

\* MERGE ... WHEN NOT MATCHED THEN INSERT (..., first_seen_ts, last_seen_ts, run_id)
\* VALUES (..., S.first_seen_ts, S.first_seen_ts, S.run_id)
edges_merge(target, new, rid, ts) ==
    edges_matched_update(target, new, rid, ts)
      \cup { [left_entity_key |-> n.left_entity_key,
              right_entity_key |-> n.right_entity_key,
              identifier_type |-> n.identifier_type,
              identifier_value_norm |-> n.identifier_value_norm,
              first_seen_ts |-> {ts},
              last_seen_ts |-> {ts},
              run_id |-> rid] : n \in edges_not_matched(target, new) }

\* step 3 of generate_output, with current_ts the clock of the store
edges_upsert(target, new, rid, ts, d) ==
    IF uses_on_conflict(d)
    THEN edges_on_conflict(target, new, rid, ts)
    ELSE edges_merge(target, new, rid, ts)

\* faulty variant: stale rows are never deleted
cleanup_stale_never(table, mode, rid) == table

\* if run_mode == "FULL": DELETE FROM ... WHERE run_id != current
cleanup_stale(table, mode, rid) ==
    IF mode = "FULL" THEN { t \in table : t.run_id = rid } ELSE table

\* ----- compute_confidence_scores -----

\* idr_work.cluster_sizes_updates
cluster_sizes_updates(mem, impacted) ==
    { [resolved_id |-> rid,
       cluster_size |-> Cardinality({ m \in mem : m.resolved_id = rid })] :
        rid \in { m.resolved_id : m \in mem } \cap impacted }

\* the rows of the join of cluster_edge_stats for one resolved_id
edge_join(mem, edges, rid) ==
    { p \in { m \in mem : m.resolved_id = rid } \X edges :
        p[2].left_entity_key = p[1].entity_key \/ p[2].right_entity_key = p[1].entity_key }

\* COALESCE(es.edge_diversity, 0) and COALESCE(es.edge_count, 0)
edge_diversity(mem, edges, rid) ==
    Cardinality({ p[2].identifier_type : p \in edge_join(mem, edges, rid) })
edge_count(mem, edges, rid) == Cardinality(edge_join(mem, edges, rid))

\* faulty variant: the density is not capped
match_density_uncapped(size, ec) == IF size <= 1 THEN <<1, 1>> ELSE <<ec, size - 1>>

\* match_density as a fraction <<numerator, denominator>>
match_density(size, ec) ==
    IF size <= 1 THEN <<1, 1>>
    ELSE IF ec >= size - 1 THEN <<1, 1>> ELSE <<ec, size - 1>>

\* idr_work.cluster_density
cluster_density(mem, edges, impacted) ==
    { [resolved_id |-> c.resolved_id,
       cluster_size |-> c.cluster_size,
       edge_diversity |-> edge_diversity(mem, edges, c.resolved_id),
       match_density |-> match_density(c.cluster_size, edge_count(mem, edges, c.resolved_id))] :
        c \in cluster_sizes_updates(mem, impacted) }

\* GREATEST(1, MAX(edge_diversity))
max_diversity(cd) == Max({1} \cup { c.edge_diversity : c \in cd })

\* ROUND(x, 3) of the fraction num / den, in thousandths
round3(num, den) == (2 * 1000 * num + den) \div (2 * den)

\* confidence_score in thousandths:
\* ROUND(0.50 * diversity / max_div + 0.35 * match_density + 0.15, 3)
confidence_score(size, div, dens, max_div) ==
    IF size = 1 THEN 1000
    ELSE round3(50 * div * dens[2] + 35 * dens[1] * max_div + 15 * max_div * dens[2],
                100 * max_div * dens[2])

cast_varchar(d) == CASE d = 0 -> "0" [] d = 1 -> "1" [] d = 2 -> "2" [] OTHER -> "3+"

\* primary_reason, as the sequence of the strings that || concatenates
primary_reason(size, div, dens) ==
    CASE size = 1 -> <<"SINGLETON_NO_MATCH_REQUIRED">>
      [] size # 1 /\ div >= 3 /\ 10 * dens[1] >= 8 * dens[2] ->
            <<cast_varchar(div), " identifier types, high density">>
      [] size # 1 /\ ~(div >= 3 /\ 10 * dens[1] >= 8 * dens[2])
           /\ div >= 2 /\ 2 * dens[1] >= dens[2] ->
            <<cast_varchar(div), " identifier types, moderate density">>
      [] size # 1 /\ div = 1 /\ 10 * dens[1] >= 8 * dens[2] ->
            <<"Single identifier type, high density">>
      [] size # 1 /\ div = 1 /\ 2 * dens[1] < dens[2] ->
            <<"Single identifier type, chain pattern">>
      [] OTHER ->
            <<cast_varchar(div), " identifier type(s), ",
              IF 2 * dens[1] >= dens[2] THEN "moderate" ELSE "low", " density">>

\* idr_work.cluster_confidence
compute_confidence_scores(mem, edges, impacted) ==
    LET cd == cluster_density(mem, edges, impacted)
    IN { [resolved_id |-> c.resolved_id,
          cluster_size |-> c.cluster_size,
          edge_diversity |-> c.edge_diversity,
          match_density |-> c.match_density,
          confidence_score |->
              confidence_score(c.cluster_size, c.edge_diversity, c.match_density,
                               max_diversity(cd)),
          primary_reason |-> primary_reason(c.cluster_size, c.edge_diversity, c.match_density)] :
           c \in cd }

\* source_query of the clusters upsert: GROUP BY label, fr.super_cluster_id,
\* cc.confidence_score, cc.primary_reason over the two LEFT JOINs
clusters_source(labels, fr, cc, rid) ==
    { [resolved_id |-> g[1],
       cluster_size |-> Cardinality({ e \in DOMAIN labels : labels[e] = g[1] }),
       run_id |-> rid,
       super_cluster_id |-> g[2],
       confidence_score |-> g[3][1],
       primary_reason |-> g[3][2]] :
        g \in { h \in impacted_resolved_ids(labels)
                       \X ({{}} \cup { {f.super_cluster_id} : f \in fr })
                       \X ({<<1000, <<"Single-node cluster">>>>}
                             \cup { <<c.confidence_score, c.primary_reason>> : c \in cc }) :
                  /\ h[2] \in left_join_super(h[1], fr)
                  /\ h[3] \in (IF \E c \in cc : c.resolved_id = h[1]
                               THEN { <<c.confidence_score, c.primary_reason>> :
                                        c \in { x \in cc : x.resolved_id = h[1] } }
                               ELSE {<<1000, <<"Single-node cluster">>>>}) } }

\* generate_output; the watermark upsert and the profile builder write other tables
generate_output ==
    /\ out_pc = "output_generation"
    /\ LET impacted == impacted_resolved_ids(lp_labels)
           mem == upsert(membership, membership_source(lp_labels, fuzzy_results, run_id),
                         {"entity_key"}, dialect)
           edg == cleanup_stale(edges_upsert(edges_current, edges_new, run_id, now, dialect),
                                run_mode, run_id)
           cc == compute_confidence_scores(mem, edg, impacted)
       IN /\ membership' = mem
          /\ edges_current' = edg
          /\ cluster_confidence' = cc
          /\ clusters' =
               cleanup_stale(
                   upsert(clusters, clusters_source(lp_labels, fuzzy_results, cc, run_id),
                          {"resolved_id"}, dialect),
                   run_mode, run_id)
    /\ out_pc' = "done"
    /\ UNCHANGED <<run_id, warnings, dialect, fuzzyVars, dry_run_results, dry_run_summary, before>>
    /\ UNCHANGED <<edgeVars, lpVars, runVars, metaVars>>

\* CASE ... END AS change_type over lp_labels LEFT JOIN membership
change_type(current, label) ==
    IF current = {} THEN "NEW"
    ELSE IF Max(current) # label THEN "MOVED" ELSE "UNCHANGED"

\* CREATE OR REPLACE TABLE idr_out.dry_run_results
dry_run_results_select(labels, mem, rid) ==
    { [entity_key |-> p[1],
       current_resolved_id |-> p[2],
       new_resolved_id |-> labels[p[1]],
       change_type |-> change_type(p[2], labels[p[1]]),
       run_id |-> rid] :
        p \in { q \in (DOMAIN labels) \X ({{}} \cup { {m.resolved_id} : m \in mem }) :
                  IF \E m \in mem : m.entity_key = q[1]
                  THEN \E m \in mem : m.entity_key = q[1] /\ q[2] = {m.resolved_id}
                  ELSE q[2] = {} } }

\* CREATE OR REPLACE TABLE idr_out.dry_run_summary
dry_run_summary_select(results, rid) ==
    LET rows == { r \in results : r.run_id = rid }
        n(t) == Cardinality({ r \in rows : r.change_type = t })
    IN { [run_id |-> rid, new_entities |-> n("NEW"), moved_entities |-> n("MOVED"),
          unchanged_entities |-> n("UNCHANGED"), total_entities |-> Cardinality(rows)] }

generate_dry_run_output ==
    /\ out_pc = "dry_run_analysis"
    /\ dry_run_results' = dry_run_results_select(lp_labels, membership, run_id)
    /\ dry_run_summary' = dry_run_summary_select(dry_run_results', run_id)
    /\ out_pc' = "done"
    /\ UNCHANGED <<run_id, warnings, dialect, fuzzyVars, membership, clusters, edges_current,
                   cluster_confidence, before>>
    /\ UNCHANGED <<edgeVars, lpVars, runVars, metaVars>>

\* =====================================================================
\* Specification SpecPipeline: a run from identifier extraction to the output
\* tables, over every source content, run configuration and iteration limit
\* within the bounds, on empty output tables or on those an earlier run
\* (run_0) left; a FULL run is followed by a second one over the same source.
\* =====================================================================

\* raw identifier values of the sources of this specification
PipelineValues == [EMAIL |-> {NULL, "a"}, PHONE |-> {NULL, "p"}]

PipelineRule ==
    [t \in IdTypes |-> [canonicalize |-> "LOWERCASE", max_group_size |-> DefaultMaxGroupSize]]

\* idr_work.entity_attributes with its fuzzy rule: nothing configured, or a
\* zip shared by all entities and n equal to the entity key
PipelineAttributes ==
    { <<{}, {}>>,
      <<attribute_rows([e \in EntityKeys |-> <<{1}, {IF e <= 3 THEN e ELSE 3}>>]),
        {FuzzyRule(90)}>> }

\* the output tables run_0 left: entity 1 alone, entities 2 and 3 linked by a
\* phone number, the two clusters joined into one super cluster
Run0Tables ==
    [membership |->
        { [entity_key |-> 1, resolved_id |-> 1, run_id |-> "run_0", super_cluster_id |-> {1}],
          [entity_key |-> 2, resolved_id |-> 2, run_id |-> "run_0", super_cluster_id |-> {1}],
          [entity_key |-> 3, resolved_id |-> 2, run_id |-> "run_0", super_cluster_id |-> {1}] },
     clusters |->
        { [resolved_id |-> 1, cluster_size |-> 1, run_id |-> "run_0", super_cluster_id |-> {1},
           confidence_score |-> 1000, primary_reason |-> <<"SINGLETON_NO_MATCH_REQUIRED">>],
          [resolved_id |-> 2, cluster_size |-> 2, run_id |-> "run_0", super_cluster_id |-> {1},
           confidence_score |-> 1000,
           primary_reason |-> <<"Single identifier type, high density">>] },
     edges |->
        { [left_entity_key |-> 3, right_entity_key |-> 2, identifier_type |-> "PHONE",
           identifier_value_norm |-> "p", first_seen_ts |-> {-1}, last_seen_ts |-> {-1},
           run_id |-> "run_0"] }]

NoTables == [membership |-> {}, clusters |-> {}, edges |-> {}]

\* entities_delta: all entities in a FULL run, those past the watermark in INCR
DeltaChoices(mode) ==
    IF mode = "FULL" THEN {EntityKeys} ELSE {EntityKeys, EntityKeys \ {1}}

InitPipeline ==
    /\ source_rows \in [EntityKeys -> [EMAIL : PipelineValues.EMAIL, PHONE : PipelineValues.PHONE]]
    /\ rule = PipelineRule
    /\ identifier_exclusion = {}
    /\ run_mode \in {"FULL", "INCR"}
    /\ entities_delta \in DeltaChoices(run_mode)
    /\ identifiers_all = {}
    /\ edges_new = {}
    /\ skipped_identifier_groups = {}
    /\ EvidenceOff
    /\ stage = "extract_identifiers"
    /\ max_iters \in 1..MaxIters
    /\ lp_labels = EmptyFn
    /\ lp_labels_new = EmptyFn
    /\ lp_edges = {}
    /\ iterations = 0
    /\ changes = -1
    /\ lp_return = <<>>
    /\ lp_pc = "off"
    /\ RunTablesIdle
    /\ \E cfg \in RunConfigs : config = [r \in Runners |-> cfg]
    /\ meta = EmptyFn
    /\ validated = {}
    /\ interpolated = {}
    /\ meta_pc = "off"
    /\ run_id = "run_1"
    /\ dialect = "duckdb"
    /\ out_pc = "label_propagation"
    /\ warnings = {}
    /\ \E a \in PipelineAttributes : entity_attributes = a[1] /\ fuzzy_rule = a[2]
    /\ fuzzy_edges = {}
    /\ fuzzy_results = {}
    /\ before \in {NoTables, Run0Tables}
    /\ membership = before.membership
    /\ clusters = before.clusters
    /\ edges_current = before.edges
    /\ cluster_confidence = {}
    /\ dry_run_results = {}
    /\ dry_run_summary = {}

\* IDRRunner.run called once more, by a new runner with the same configuration
\* in FULL mode, over unchanged sources and metadata
run_again ==
    /\ out_pc = "done"
    /\ run_id = "run_1"
    /\ run_mode = "FULL"
    /\ run_id' = "run_2"
    /\ warnings' = {}
    /\ stage' = "extract_identifiers"
    /\ out_pc' = "label_propagation"
    /\ before' = [membership |-> membership, clusters |-> clusters, edges |-> edges_current]
    /\ now' = now + 1
    /\ UNCHANGED <<source_rows, rule, identifier_exclusion, entities_delta, identifiers_all,
                   edges_new, skipped_identifier_groups, evidenceVars>>
    /\ UNCHANGED <<dialect, fuzzyVars, membership, clusters, edges_current, cluster_confidence,
                   dry_run_results, dry_run_summary>>
    /\ UNCHANGED <<run_history, stage_metrics, pc, run_stage_metrics, pending, result,
                   mutated, check_overlap, config>>
    /\ UNCHANGED <<lpVars, metaVars>>

NextPipeline ==
    \/ extract_identifiers
    \/ build_edges
    \/ label_propagation
    \/ run_fuzzy_matching
    \/ skip_fuzzy_matching
    \/ generate_output
    \/ generate_dry_run_output
    \/ run_again

SpecPipeline == InitPipeline /\ [][NextPipeline]_vars

\* ---------------------------------------------------------------------
\* C14
\* ---------------------------------------------------------------------

Strict == config[run_id].strict
DryRun == config[run_id].dry_run
RunDone == out_pc = "done"

\* the rows of an output table the run at work has written
WrittenByRun(table) == { t \in table : t.run_id = run_id }

\* C14: in a strict run run_fuzzy_matching is never invoked, no fuzzy edge
\* exists, and every membership and cluster row the run writes has a null
\* super_cluster_id.
C14_StrictDisablesFuzzy ==
    /\ [](Strict =>
            /\ fuzzy_edges = {}
            /\ \A m \in WrittenByRun(membership) : m.super_cluster_id = {}
            /\ \A c \in WrittenByRun(clusters) : c.super_cluster_id = {})
    /\ [][Strict => ~run_fuzzy_matching]_vars

\* a strict run with a fuzzy rule and attributes configured has replaced rows
\* that carried a super cluster by rows without one
C14_Witness ==
    /\ Strict /\ RunDone /\ ~DryRun
    /\ fuzzy_rule # {} /\ entity_attributes # {}
    /\ \E m \in before.membership : m.super_cluster_id # {}
    /\ WrittenByRun(membership) # {} /\ WrittenByRun(clusters) # {}
    /\ \A m \in WrittenByRun(membership) : m.super_cluster_id = {}

\* ---------------------------------------------------------------------
\* C15
\* ---------------------------------------------------------------------

\* the keys of the rows the run's upserts write
TouchedClusters == { lp_labels[e] : e \in DOMAIN lp_labels }
TouchedEdges ==
    { <<e.left_entity_key, e.right_entity_key, e.identifier_type>> : e \in edges_new }

OutputDone == RunDone /\ ~DryRun

\* C15: after generate_output in FULL mode no cluster row and no edge row
\* carries another run id than the current one; in INCR mode every cluster
\* row and edge row the run did not touch is still there as it was.
C15_FullCleansIncrKeeps ==
    OutputDone =>
        /\ run_mode = "FULL" =>
             /\ \A c \in clusters : c.run_id = run_id
             /\ \A e \in edges_current : e.run_id = run_id
        /\ run_mode = "INCR" =>
             /\ \A c \in before.clusters :
                  c.resolved_id \notin TouchedClusters => c \in clusters
             /\ \A e \in before.edges :
                  <<e.left_entity_key, e.right_entity_key, e.identifier_type>> \notin TouchedEdges
                     => e \in edges_current

\* a FULL run has deleted a cluster row and an edge row of an earlier run
\* that it did not write again
C15_Witness ==
    /\ OutputDone /\ run_mode = "FULL"
    /\ clusters # {}
    /\ \E c \in before.clusters : \A d \in clusters : d.resolved_id # c.resolved_id
    /\ \E e \in before.edges :
         \A d \in edges_current :
            <<d.left_entity_key, d.right_entity_key, d.identifier_type>>
              # <<e.left_entity_key, e.right_entity_key, e.identifier_type>>

\* an INCR run has kept an untouched cluster row and an untouched edge row of
\* an earlier run next to rows of its own
C15_WitnessIncr ==
    /\ OutputDone /\ run_mode = "INCR"
    /\ \E c \in clusters : c.run_id = run_id
    /\ \E c \in clusters : c.run_id # run_id /\ c \in before.clusters
    /\ \E e \in edges_current : e.run_id # run_id /\ e \in before.edges

\* ---------------------------------------------------------------------
\* C16
\* ---------------------------------------------------------------------

\* the change type of an entity against the membership rows the run found
ExpectedChange(e) ==
    IF \A m \in before.membership : m.entity_key # e THEN "NEW"
    ELSE IF \E m \in before.membership : m.entity_key = e /\ m.resolved_id = lp_labels[e]
         THEN "UNCHANGED" ELSE "MOVED"

\* C16: a dry run leaves the membership, cluster and edge tables as it found
\* them at every step; what it persists is the detail table, classifying each
\* of the run's entities once as NEW, MOVED or UNCHANGED, and the summary
\* table counting them.
C16_DryRunMutatesNoOutputTable ==
    DryRun =>
        /\ membership = before.membership
        /\ clusters = before.clusters
        /\ edges_current = before.edges
        /\ RunDone =>
             /\ \A e \in DOMAIN lp_labels :
                  \E r \in dry_run_results :
                     /\ r.entity_key = e /\ r.run_id = run_id
                     /\ r.change_type = ExpectedChange(e)
                     /\ \A q \in dry_run_results : q.entity_key = e => q = r
             /\ \E s \in dry_run_summary :
                  /\ s.run_id = run_id
                  /\ s.total_entities = Cardinality(DOMAIN lp_labels)

\* a dry run over tables of an earlier run has classified one entity as moved
\* and another as unchanged, the tables being as they were
C16_Witness ==
    /\ DryRun /\ RunDone
    /\ before.membership # {} /\ membership = before.membership
    /\ \E r \in dry_run_results : r.change_type = "MOVED"
    /\ \E r \in dry_run_results : r.change_type = "UNCHANGED"
    /\ \E s \in dry_run_summary : s.moved_entities >= 1

\* ---------------------------------------------------------------------
\* C17
\* ---------------------------------------------------------------------

EntityMapping(mem) == { <<m.entity_key, m.resolved_id>> : m \in mem }
ClusterSizes(cl) == { <<c.resolved_id, c.cluster_size>> : c \in cl }

SecondRunDone == run_id = "run_2" /\ OutputDone /\ run_mode = "FULL"

\* C17: when the pipeline has run twice in FULL mode, not as a dry run, over
\* the same sources and metadata, the membership table maps every entity to
\* the same resolved id and the cluster table holds the same clusters with
\* the same sizes after the second run as after the first.
C17_FullRunTwiceSameTables ==
    SecondRunDone =>
        /\ EntityMapping(membership) = EntityMapping(before.membership)
        /\ ClusterSizes(clusters) = ClusterSizes(before.clusters)
        /\ Cardinality(membership) = Cardinality(before.membership)
        /\ Cardinality(clusters) = Cardinality(before.clusters)

\* the second run has rewritten the rows of the first, a cluster of several
\* entities among them
C17_Witness ==
    /\ SecondRunDone
    /\ \E c \in clusters : c.cluster_size >= 2 /\ c.run_id = "run_2"
    /\ \E m \in before.membership : m.run_id = "run_1"
    /\ \A m \in membership : m.run_id = "run_2"

\* ---------------------------------------------------------------------
\* C18
\* ---------------------------------------------------------------------

MembershipRows(e) == { m \in membership : m.entity_key = e }

\* C18: after a successful run that is not a dry run, every entity of
\* entities_delta has exactly one membership row, and the resolved_id of that
\* row is the label label propagation computed for the entity.
C18_OneMembershipRowPerEntity ==
    OutputDone =>
        \A e \in entities_delta :
            /\ Cardinality(MembershipRows(e)) = 1
            /\ e \in DOMAIN lp_labels
            /\ \A m \in MembershipRows(e) : m.resolved_id = lp_labels[e]

\* a run with fuzzy results has moved an entity that had a membership row to
\* the label of another entity
C18_Witness ==
    /\ OutputDone
    /\ fuzzy_results # {}
    /\ \E e \in entities_delta :
         /\ lp_labels[e] # e
         /\ \E b \in before.membership : b.entity_key = e /\ b.resolved_id # lp_labels[e]
         /\ \E m \in membership : m.entity_key = e /\ m.resolved_id = lp_labels[e]

\* =====================================================================
\* Specification SpecConfidence: compute_confidence_scores on its own, over
\* every converged labelling of MaxEntities entities just upserted into the
\* membership table and every content of the edge table. Edges of earlier
\* INCR runs stay in identity_edges_current, so an edge can join any two
\* entities, whatever clusters they are in now.
\* =====================================================================

StoredEdges ==
    { [left_entity_key |-> p[1], right_entity_key |-> p[2], identifier_type |-> t,
       identifier_value_norm |-> "v", first_seen_ts |-> {0}, last_seen_ts |-> {0},
       run_id |-> "run_1"] :
        <<p, t>> \in DownPairs \X IdTypes }

InitConfidence ==
    /\ source_rows = EmptyFn
    /\ rule = EmptyFn
    /\ identifier_exclusion = {}
    /\ entities_delta = EntityKeys
    /\ identifiers_all = {}
    /\ edges_new = {}
    /\ skipped_identifier_groups = {}
    /\ EvidenceOff
    /\ stage = "edges_built"
    /\ max_iters = 1
    /\ lp_labels \in ConvergedLabels(EntityKeys)
    /\ lp_labels_new = EmptyFn
    /\ lp_edges = {}
    /\ iterations = 0
    /\ changes = 0
    /\ lp_return = <<0, 0>>
    /\ lp_pc = "done"
    /\ RunTablesIdle
    /\ config = [r \in {"run_1"} |-> DefaultConfig]
    /\ run_mode = "INCR"
    /\ meta = EmptyFn
    /\ validated = {}
    /\ interpolated = {}
    /\ meta_pc = "off"
    /\ run_id = "run_1"
    /\ dialect = "duckdb"
    /\ out_pc = "compute_confidence_scores"
    /\ warnings = {}
    /\ entity_attributes = {}
    /\ fuzzy_rule = {}
    /\ fuzzy_edges = {}
    /\ fuzzy_results = {}
    /\ membership = membership_source(lp_labels, fuzzy_results, run_id)
    /\ clusters = {}
    /\ edges_current \in SUBSET StoredEdges
    /\ cluster_confidence = {}
    /\ dry_run_results = {}
    /\ dry_run_summary = {}
    /\ before = NoTables

\* self.compute_confidence_scores() as generate_output calls it
score_impacted_clusters ==
    /\ out_pc = "compute_confidence_scores"
    /\ cluster_confidence' =
         compute_confidence_scores(membership, edges_current, impacted_resolved_ids(lp_labels))
    /\ out_pc' = "scored"
    /\ UNCHANGED <<run_id, warnings, dialect, fuzzyVars, membership, clusters, edges_current,
                   dry_run_results, dry_run_summary, before>>
    /\ UNCHANGED <<edgeVars, lpVars, runVars, metaVars>>

NextConfidence == score_impacted_clusters

SpecConfidence == InitConfidence /\ [][NextConfidence]_vars

\* ---------------------------------------------------------------------
\* C19
\* ---------------------------------------------------------------------

\* C19: every confidence score compute_confidence_scores writes lies between
\* 0 and 1 (0 and 1000 thousandths), and a cluster of size 1 gets the score
\* 1.0 with the reason SINGLETON_NO_MATCH_REQUIRED.
C19_ConfidenceInUnitInterval ==
    \A c \in cluster_confidence :
        /\ 0 <= c.confidence_score /\ c.confidence_score <= 1000
        /\ c.cluster_size = 1 =>
             /\ c.confidence_score = 1000
             /\ c.primary_reason = <<"SINGLETON_NO_MATCH_REQUIRED">>

\* scores were computed for a singleton and for a cluster of several
\* entities that scores below 1.0
C19_Witness ==
    /\ out_pc = "scored"
    /\ \E c \in cluster_confidence :
         /\ c.cluster_size = 1
         /\ c.confidence_score = 1000
         /\ c.primary_reason = <<"SINGLETON_NO_MATCH_REQUIRED">>
    /\ \E c \in cluster_confidence :
         /\ c.cluster_size >= 2
         /\ c.confidence_score < 1000

\* a score was computed for a cluster whose edge count exceeds its size less
\* one, next to a singleton that has edges
C19_WitnessCapped ==
    /\ out_pc = "scored"
    /\ \E c \in cluster_confidence : c.cluster_size = 1 /\ c.edge_diversity >= 1
    /\ \E c \in cluster_confidence :
         /\ c.cluster_size >= 2
         /\ edge_count(membership, edges_current, c.resolved_id) > c.cluster_size - 1

\* ---------------------------------------------------------------------
\* C20
\* ---------------------------------------------------------------------

\* label propagation has returned at the iteration limit with labels still
\* changing in its last iteration
StoppedUnconverged == lp_pc = "done" /\ iterations = max_iters /\ changes > 0

\* the warnings of the model that are about something else than convergence
OtherWarnings == {"Fuzzy matching skipped (--strict mode)"}

\* C20: when label propagation stopped at max_iters with labels still
\* changing, the warnings of the finished run hold a non-convergence warning
\* (the run itself goes on to its end).
C20_NonConvergenceWarned ==
    (RunDone /\ StoppedUnconverged) => \E w \in warnings : w \notin OtherWarnings

\* the run goes on to its end after such a stop: no step is refused
C20_UnconvergedRunNotStopped ==
    StoppedUnconverged =>
        \/ RunDone
        \/ ENABLED NextPipeline

\* =====================================================================
\* Specification SpecUpsert: generate_output on every engine, over every
\* converged labelling with the star edges that link it, on empty output
\* tables or on those run_0 left.
\* =====================================================================

IdValue == [EMAIL |-> "a", PHONE |-> "p"]

\* edges_new for a labelling: every entity that is not the label of its
\* cluster points to the label, by one identifier type or by both
LinkChoices(labels) ==
    { UNION { { [left_entity_key |-> e, right_entity_key |-> labels[e],
                 identifier_type |-> t, identifier_value_norm |-> IdValue[t]] : t \in f[e] } :
              e \in DOMAIN f } :
        f \in [{ e \in DOMAIN labels : labels[e] # e } -> (SUBSET IdTypes) \ {{}}] }

InitUpsert ==
    /\ source_rows = EmptyFn
    /\ rule = EmptyFn
    /\ identifier_exclusion = {}
    /\ entities_delta = EntityKeys
    /\ identifiers_all = {}
    /\ lp_labels \in ConvergedLabels(EntityKeys)
    /\ edges_new \in LinkChoices(lp_labels)
    /\ skipped_identifier_groups = {}
    /\ EvidenceOff
    /\ stage = "edges_built"
    /\ max_iters = 1
    /\ lp_labels_new = EmptyFn
    /\ lp_edges = {}
    /\ iterations = 0
    /\ changes = 0
    /\ lp_return = <<0, 0>>
    /\ lp_pc = "done"
    /\ RunTablesIdle
    /\ config = [r \in {"run_1"} |-> DefaultConfig]
    /\ run_mode \in {"FULL", "INCR"}
    /\ meta = EmptyFn
    /\ validated = {}
    /\ interpolated = {}
    /\ meta_pc = "off"
    /\ run_id = "run_1"
    /\ dialect \in Dialects
    /\ out_pc = "output_generation"
    /\ warnings = {}
    /\ entity_attributes = {}
    /\ fuzzy_rule = {}
    /\ fuzzy_edges = {}
    /\ fuzzy_results = {}
    /\ before \in {NoTables, Run0Tables}
    /\ membership = before.membership
    /\ clusters = before.clusters
    /\ edges_current = before.edges
    /\ cluster_confidence = {}
    /\ dry_run_results = {}
    /\ dry_run_summary = {}

NextUpsert == generate_output

SpecUpsert == InitUpsert /\ [][NextUpsert]_vars

\* ---------------------------------------------------------------------
\* C21
\* ---------------------------------------------------------------------

MembershipUpserted(technique) ==
    LET src == membership_source(lp_labels, fuzzy_results, run_id)
    IN IF technique = "ON CONFLICT"
       THEN upsert_on_conflict(before.membership, src, {"entity_key"})
       ELSE upsert_merge(before.membership, src, {"entity_key"})

EdgesUpserted(technique) ==
    cleanup_stale(IF technique = "ON CONFLICT"
                  THEN edges_on_conflict(before.edges, edges_new, run_id, now)
                  ELSE edges_merge(before.edges, edges_new, run_id, now),
                  run_mode, run_id)

\* C21: whichever engine ran generate_output, the membership table and the
\* edge table are what the ON CONFLICT statement and what the MERGE statement
\* make of the same target and source rows, first_seen_ts and last_seen_ts
\* included.
C21_UpsertTechniquesAgree ==
    RunDone =>
        /\ membership = MembershipUpserted("ON CONFLICT")
        /\ membership = MembershipUpserted("MERGE")
        /\ edges_current = EdgesUpserted("ON CONFLICT")
        /\ edges_current = EdgesUpserted("MERGE")

\* what does hold: OutputStage.upsert leaves the same table by both
\* techniques, and so does the edge upsert for every edge seen before and, up
\* to last_seen_ts, for every new edge
WithoutLastSeen(table) ==
    { [c \in DOMAIN e \ {"last_seen_ts"} |-> e[c]] : e \in table }

C21_TechniquesAgreeButLastSeen ==
    RunDone =>
        /\ membership = MembershipUpserted("ON CONFLICT")
        /\ membership = MembershipUpserted("MERGE")
        /\ WithoutLastSeen(edges_current) = WithoutLastSeen(EdgesUpserted("ON CONFLICT"))
        /\ WithoutLastSeen(edges_current) = WithoutLastSeen(EdgesUpserted("MERGE"))
        /\ \A e \in edges_current :
             (\E b \in before.edges : edge_key(b) = edge_key(e))
                => e \in EdgesUpserted("ON CONFLICT") \cap EdgesUpserted("MERGE")


\* ---------------------------------------------------------------------
\* C22: the run that counted 0 entities
\* ---------------------------------------------------------------------
LaterStages ==
    {"identifier_extraction", "attribute_extraction", "edge_building", "label_propagation",
     "fuzzy_matching", "output_generation", "dry_run_analysis"}

\* entity extraction of runner r returns in this step with an empty entities_delta
ReturnsZeroEntities(r) ==
    /\ pc[r] = "entity_extraction"
    /\ pc'[r] # pc[r]
    /\ ~pending'[r].handler
    /\ entities_delta' = {}

NoChanges(r) == pending[r].status = "SUCCESS_NO_CHANGES"

\* C22: when entity extraction returns 0 entities, run() goes straight to
\* _complete_run with status SUCCESS_NO_CHANGES; from then on the run has
\* started preflight and entity extraction only, none of the later stages has
\* written its table, and the run returns SUCCESS_NO_CHANGES with that status
\* recorded in its run_history row.
C22_ZeroEntitiesEndsRun ==
    /\ [][\A r \in Runners :
            ReturnsZeroEntities(r) =>
               /\ pc'[r] = "complete_update"
               /\ pending'[r].status = "SUCCESS_NO_CHANGES"]_vars
    /\ [](\A r \in Runners :
            NoChanges(r) =>
               /\ pc[r] \in {"complete_update", "complete_metrics", "returned"}
               /\ run_stage_metrics[r] = <<"preflight", "entity_extraction">>
               /\ mutated[r] \cap { StageTable(name) : name \in LaterStages } = {}
               /\ pc[r] = "returned" =>
                     /\ result[r].status = "SUCCESS_NO_CHANGES"
                     /\ run_history[r].status = "SUCCESS_NO_CHANGES")

C22_Witness ==
    \E r \in Runners :
       /\ pc[r] = "returned"
       /\ entities_delta = {}
       /\ result[r].status = "SUCCESS_NO_CHANGES"
       /\ run_history[r].status = "SUCCESS_NO_CHANGES"
       /\ "idr_work.entities_delta" \in mutated[r]


\* ---------------------------------------------------------------------
\* C23: the iterations of label_propagation
\* ---------------------------------------------------------------------
\* C23: label_propagation executes at least one and at most max_iters
\* iterations; it goes on to another iteration only after one that changed a
\* label and while fewer than max_iters are done, so it stops after the first
\* iteration without a change; the iteration count it returns is the number
\* of iterations executed.
C23_IterationsBoundedAndCounted ==
    /\ iterations \in 0..max_iters
    /\ lp_pc = "init" => iterations = 0
    /\ (lp_pc = "iterate" /\ iterations > 0) => (changes > 0 /\ iterations < max_iters)
    /\ lp_pc = "done" =>
          /\ iterations >= 1
          /\ changes = 0 \/ iterations = max_iters
          /\ lp_return[1] = iterations

\* the loop stopped on convergence before max_iters, after more than one iteration
C23_Witness ==
    /\ lp_pc = "done"
    /\ changes = 0
    /\ iterations > 1
    /\ iterations < max_iters
    /\ lp_return[1] = iterations

\* the loop stopped at max_iters with labels still changing
C23_WitnessExhausted ==
    /\ lp_pc = "done"
    /\ changes > 0
    /\ iterations = max_iters
    /\ lp_return[1] = max_iters


\* ---------------------------------------------------------------------
\* C24: the pairs a fuzzy rule scores
\* ---------------------------------------------------------------------
\* the rows of the CTE scored_pairs of rule r over the current tables
ScoredRows(r) == scored_pairs(cluster_attributes(lp_labels, entity_attributes), r)

\* the rows of scored_pairs that compare clusters x and y, in either order
RowsOfPair(r, x, y) ==
    { row \in ScoredRows(r) : {row.left_id, row.right_id} = {x, y} }

SameBlock(x, y) == Max(ClusterValues(x, "zip")) = Max(ClusterValues(y, "zip"))

\* C24: for each fuzzy rule, scored_pairs has exactly one row for every
\* unordered pair of distinct clusters of one block, in one of its two
\* orderings, no row that pairs a cluster with itself, and no row for clusters
\* of different blocks.
C24_EachPairScoredOnce ==
    FuzzyRan =>
       \A r \in fuzzy_rule :
          /\ \A x, y \in Blocked :
                (x # y /\ SameBlock(x, y)) => Cardinality(RowsOfPair(r, x, y)) = 1
          /\ \A row \in ScoredRows(r) :
                /\ row.left_id # row.right_id
                /\ row.left_id \in Blocked /\ row.right_id \in Blocked
                /\ SameBlock(row.left_id, row.right_id)

\* three clusters share one block: three pairs, three rows
C24_Witness ==
    /\ FuzzyRan
    /\ Cardinality(Blocked) = 3
    /\ \A x, y \in Blocked : SameBlock(x, y)
    /\ \E r \in fuzzy_rule : Cardinality(ScoredRows(r)) = 3


\* ---------------------------------------------------------------------
\* C25: the rows of fuzzy_results
\* ---------------------------------------------------------------------
LpClusters == { lp_labels[e] : e \in DOMAIN lp_labels }

FuzzyRows(rid) == { row \in fuzzy_results : row.resolved_id = rid }

\* the clusters with a row in idr_work.cluster_attributes
WithAttributes ==
    { rid \in LpClusters : \E name \in AttrNames : ClusterValues(rid, name) # {} }

\* C25: after run_fuzzy_matching with an active rule, every cluster of label
\* propagation has exactly one row in fuzzy_results.
C25_OneFuzzyRowPerCluster ==
    FuzzyRan => \A rid \in LpClusters : Cardinality(FuzzyRows(rid)) = 1

\* What the code keeps: the clusters with an attribute row have exactly one
\* row in fuzzy_results, the others have none.
C25_OneFuzzyRowPerClusterWithAttributes ==
    FuzzyRan =>
       /\ \A rid \in WithAttributes : Cardinality(FuzzyRows(rid)) = 1
       /\ \A rid \in LpClusters \ WithAttributes : FuzzyRows(rid) = {}


\* =====================================================================
\* Specification SpecRerun: a first FULL run over empty output tables, then
\* a second run over the tables the first one left. The second run is a FULL
\* run after one entity was deleted from the source (or none), or an INCR run
\* whose delta is any non-empty set of entities (rows past the watermark less
\* its lookback); the identifier values of the rows are as in the first run.
\* =====================================================================

\* the entities_delta tables the second run can extract
SecondDeltas(mode) ==
    IF mode = "FULL"
    THEN {EntityKeys} \cup { EntityKeys \ {e} : e \in EntityKeys }
    ELSE (SUBSET EntityKeys) \ {{}}

InitRerun ==
    /\ InitPipeline
    /\ run_mode = "FULL"
    /\ before = NoTables
    /\ config = [r \in Runners |-> DefaultConfig]
    /\ fuzzy_rule = {}
    /\ max_iters = MaxIters

\* IDRRunner.run called once more by a new runner, up to the end of entity
\* extraction
next_run ==
    /\ out_pc = "done"
    /\ run_id = "run_1"
    /\ \E mode \in {"FULL", "INCR"} :
          /\ run_mode' = mode
          /\ entities_delta' \in SecondDeltas(mode)
    /\ run_id' = "run_2"
    /\ warnings' = {}
    /\ stage' = "extract_identifiers"
    /\ out_pc' = "label_propagation"
    /\ before' = [membership |-> membership, clusters |-> clusters, edges |-> edges_current]
    /\ now' = now + 1
    /\ UNCHANGED <<source_rows, rule, identifier_exclusion, identifiers_all,
                   edges_new, skipped_identifier_groups, evidenceVars>>
    /\ UNCHANGED <<dialect, fuzzyVars, membership, clusters, edges_current, cluster_confidence,
                   dry_run_results, dry_run_summary>>
    /\ UNCHANGED <<run_history, stage_metrics, pc, run_stage_metrics, pending, result,
                   mutated, check_overlap, config>>
    /\ UNCHANGED <<lpVars, meta, validated, interpolated, meta_pc>>

NextRerun ==
    \/ extract_identifiers
    \/ build_edges
    \/ label_propagation
    \/ run_fuzzy_matching
    \/ generate_output
    \/ next_run

SpecRerun == InitRerun /\ [][NextRerun]_vars

\* ---------------------------------------------------------------------
\* C26
\* ---------------------------------------------------------------------
Members(rid) == { m.entity_key : m \in { x \in membership : x.resolved_id = rid } }

\* the edge rows whose two endpoints are members of the cluster
InnerEdges(rid) ==
    { e \in edges_current :
        e.left_entity_key \in Members(rid) /\ e.right_entity_key \in Members(rid) }

\* min(1, E / (n - 1)) as a fraction
ExpectedDensity(rid) ==
    LET n == Cardinality(Members(rid))
        E == Cardinality(InnerEdges(rid))
    IN IF E >= n - 1 THEN <<1, 1>> ELSE <<E, n - 1>>

SameFraction(a, b) == a[1] * b[2] = b[1] * a[2]

\* C26: for every cluster of more than one entity that the run touched, the
\* match_density of compute_confidence_scores is min(1, E / (n - 1)), E the
\* number of edge rows with both endpoints in the cluster.
C26_DensityIsEdgesOverSizeLessOne ==
    OutputDone =>
       \A c \in cluster_confidence :
          c.cluster_size > 1 => SameFraction(c.match_density, ExpectedDensity(c.resolved_id))

\* What the code computes: the join of cluster_edge_stats has one row per
\* member and edge that touches it, so an edge inside the cluster counts
\* twice; the density is min(1, 2E / (n - 1)) when no edge leaves the cluster.
C26_DensityCountsEdgeEndpoints ==
    OutputDone =>
       \A c \in cluster_confidence :
          (/\ c.cluster_size > 1
           /\ \A e \in edges_current :
                 (e.left_entity_key \in Members(c.resolved_id)
                    \/ e.right_entity_key \in Members(c.resolved_id))
                 => e \in InnerEdges(c.resolved_id))
          => SameFraction(c.match_density,
               LET n == Cardinality(Members(c.resolved_id))
                   E == Cardinality(InnerEdges(c.resolved_id))
               IN IF 2 * E >= n - 1 THEN <<1, 1>> ELSE <<2 * E, n - 1>>)


\* =====================================================================
\* Specification SpecEvidence: IDRRunner.run from the construction of the
\* stage objects to the end of build_edges, with and without the table
\* idr_out.edge_evidence in the store.
\* =====================================================================

\* ctx = StageContext(..., generate_evidence=False) and the four stage
\* constructors; BaseStage.__init__ copies ctx.generate_evidence into the stage
construct_stages ==
    /\ stage = "construct_stages"
    /\ ctx_generate_evidence' = FALSE
    /\ graph_generate_evidence' = ctx_generate_evidence'
    /\ stage' = "load_evidence_flag"
    /\ UNCHANGED <<source_rows, rule, identifier_exclusion, entities_delta, identifiers_all,
                   edges_new, skipped_identifier_groups, edge_evidence_exists, edge_evidence>>
    /\ UNCHANGED <<lpVars, runVars, metaVars, outVars>>

\* ctx.generate_evidence = preflight.load_evidence_flag(): whether the table
\* exists, False when the lookup raises
load_evidence_flag ==
    /\ stage = "load_evidence_flag"
    /\ ctx_generate_evidence' \in {edge_evidence_exists, FALSE}
    /\ stage' = "extract_identifiers"
    /\ UNCHANGED <<source_rows, rule, identifier_exclusion, entities_delta, identifiers_all,
                   edges_new, skipped_identifier_groups, edge_evidence_exists,
                   graph_generate_evidence, edge_evidence>>
    /\ UNCHANGED <<lpVars, runVars, metaVars, outVars>>

InitEvidence ==
    /\ source_rows \in [EntityKeys -> [EMAIL : PipelineValues.EMAIL, PHONE : PipelineValues.PHONE]]
    /\ rule = PipelineRule
    /\ identifier_exclusion = {}
    /\ entities_delta = EntityKeys
    /\ identifiers_all = {}
    /\ edges_new = {}
    /\ skipped_identifier_groups = {}
    /\ edge_evidence_exists \in BOOLEAN
    /\ ctx_generate_evidence = FALSE
    /\ graph_generate_evidence = FALSE
    /\ edge_evidence = {}
    /\ stage = "construct_stages"
    /\ LpIdle
    /\ RunIdle
    /\ MetaIdle
    /\ OutIdle

NextEvidence ==
    \/ construct_stages
    \/ load_evidence_flag
    \/ extract_identifiers
    \/ build_edges

SpecEvidence == InitEvidence /\ [][NextEvidence]_vars

\* ---------------------------------------------------------------------
\* C27
\* ---------------------------------------------------------------------
EvidenceEnabled == edge_evidence_exists /\ ctx_generate_evidence

EvidenceRows(e) ==
    { v \in edge_evidence :
        /\ v.run_id = run_id
        /\ v.entity_key_a = e.left_entity_key
        /\ v.entity_key_b = e.right_entity_key
        /\ v.identifier_type = e.identifier_type }

\* C27: when load_evidence_flag returned true for the run, build_edges has
\* recorded one evidence row for every edge it built.
C27_EvidenceRowPerEdge ==
    (stage = "edges_built" /\ EvidenceEnabled) =>
       \A e \in edges_new : Cardinality(EvidenceRows(e)) = 1

\* What the code does: GraphStage took its flag when it was constructed,
\* before load_evidence_flag ran, so the flag build_edges tests is always
\* False and no evidence row is ever written.
C27_GraphStageFlagStaysFalse ==
    /\ graph_generate_evidence = FALSE
    /\ edge_evidence = {}


\* ---------------------------------------------------------------------
\* C28
\* ---------------------------------------------------------------------
\* the resolved_id of an entity in a membership table (empty: no row)
ResolvedId(mem, e) == { m.resolved_id : m \in { x \in mem : x.entity_key = e } }

SecondIncrDone == run_id = "run_2" /\ OutputDone /\ run_mode = "INCR"

\* two entities of one cluster of the earlier run, one of them in the delta
SplitCandidates ==
    { p \in EntityKeys \X EntityKeys :
        /\ p[1] \in entities_delta
        /\ p[2] \notin entities_delta
        /\ ResolvedId(before.membership, p[1]) # {}
        /\ ResolvedId(before.membership, p[1]) = ResolvedId(before.membership, p[2]) }

\* C28: after an INCR run over unchanged source rows, two entities that had
\* the same resolved_id before the run, one of them in the run's delta, still
\* have the same resolved_id.
C28_IncrKeepsClustersTogether ==
    SecondIncrDone =>
       \A p \in SplitCandidates :
          ResolvedId(membership, p[1]) = ResolvedId(membership, p[2])

\* What the code keeps: the entity outside the delta keeps its row, and the
\* entity in the delta gets the least key of the delta entities it is linked
\* to, whatever cluster it was in.
C28_IncrRelabelsDeltaFromScratch ==
    SecondIncrDone =>
       /\ \A e \in EntityKeys \ entities_delta :
             ResolvedId(membership, e) = ResolvedId(before.membership, e)
       /\ \A e \in entities_delta :
             /\ ResolvedId(membership, e) = {lp_labels[e]}
             /\ lp_labels[e] \in entities_delta


\* ---------------------------------------------------------------------
\* C29
\* ---------------------------------------------------------------------
\* C29: after a successful run that is not a dry run, every cluster row the
\* run wrote has as cluster_size the number of membership rows with its
\* resolved_id.
C29_ClusterSizeIsMembershipCount ==
    OutputDone =>
       \A c \in WrittenByRun(clusters) :
          c.cluster_size = Cardinality(Members(c.resolved_id))

\* What the code writes: cluster_size is COUNT(*) over idr_work.lp_labels,
\* the number of entities of the run's delta with that label.
C29_ClusterSizeIsDeltaCount ==
    OutputDone =>
       \A c \in WrittenByRun(clusters) :
          c.cluster_size =
             Cardinality({ e \in entities_delta : lp_labels[e] = c.resolved_id })


\* =====================================================================
\* Specification SpecLease: run_1 recorded its RUNNING row some hours ago and
\* is still at work on its first stage when run_2 may start; the clock of the
\* store advances.
\* =====================================================================
InitLease ==
    /\ EdgesIdle
    /\ LpIdle
    /\ \E age \in (StaleHours - 2)..StaleHours :
          run_history =
             [id \in RunIds |->
                 IF id = "run_1" THEN [status |-> "RUNNING", started_at |-> 0 - age, error_message |-> NULL]
                 ELSE NoRow]
    /\ stage_metrics = {}
    /\ now = 0
    /\ pc = [r \in Runners |-> IF r = "run_1" THEN StageOrder[1] ELSE "idle"]
    /\ run_stage_metrics = [r \in Runners |-> IF r = "run_1" THEN <<"preflight">> ELSE <<>>]
    /\ pending = [r \in Runners |-> NoPending]
    /\ result = [r \in Runners |-> NoResult]
    /\ mutated = [r \in Runners |-> IF r = "run_1" THEN {"idr_out.run_history"} ELSE {}]
    /\ check_overlap = FALSE
    /\ config = [r \in Runners |-> DefaultConfig]
    /\ MetaIdle
    /\ OutIdle

SpecLease == InitLease /\ [][Next]_vars

\* ---------------------------------------------------------------------
\* C30
\* ---------------------------------------------------------------------
LeftRunning == {"SUCCESS", "SUCCESS_NO_CHANGES", "DRY_RUN_COMPLETE", "FAILED", "INTERRUPTED"}

\* C30: a run_history row whose status is SUCCESS, SUCCESS_NO_CHANGES,
\* DRY_RUN_COMPLETE, FAILED or INTERRUPTED keeps that status in every later
\* step.
C30_FinalStatusNeverChanges ==
    [][\A id \in RunIds :
          run_history[id].status \in LeftRunning
             => run_history'[id].status = run_history[id].status]_vars

\* C30, the case of the stale reclaim: a row marked INTERRUPTED stays
\* INTERRUPTED when its run completes.
C30_InterruptedIsNotOverwritten ==
    [][\A id \in RunIds :
          run_history[id].status = "INTERRUPTED"
             => run_history'[id].status = "INTERRUPTED"]_vars

\* What the code keeps: only the run itself moves its row away from
\* INTERRUPTED, and a row of a run that has ended does not change.
C30_OnlyOwnerOverwrites ==
    [][\A id \in Runners :
          (run_history[id].status \in LeftRunning
             /\ run_history'[id].status # run_history[id].status)
          => (pc[id] = "complete_update" /\ pc'[id] # pc[id])]_vars

====
